---- MODULE Spec2Model ----
(***************************************************************************)
(* A model of the semantic compatibility core of the repository and of the *)
(* routes around it:                                                       *)
(*   - EmbeddingService  (src/backend/embeddings/service.py): embed_text,  *)
(*     embed_batch, embed_profile, embed_job and their tenacity retry loop *)
(*     (SpecEmbed)                                                         *)
(*   - SemanticMatcher   (src/embeddings/matcher.py): _cosine_similarity   *)
(*     and calculate_compatibility (SpecMatch), find_compatible_jobs and   *)
(*     its datastore query (SpecFind), both on the one engine (SpecEngine) *)
(*     and as concurrent tasks (SpecConcurrent)                            *)
(*   - token handling and the requests that write the users table          *)
(*     (src/utils/auth.py, src/api/auth.py, create_user of                 *)
(*     src/backend/api/users.py): SpecAuth                                 *)
(*   - create_profile    (src/backend/api/users.py), concurrent requests   *)
(*     on the rows create_user made: SpecProfile                           *)
(***************************************************************************)
EXTENDS Integers, Sequences, FiniteSets, TLC

VARIABLES
    gw_op,          \* the service method being executed, or "none"
    gw_texts,       \* the texts the caller passed, in argument order
    gw_status,      \* "idle" | "running" | "sleeping" | "returned" | "raised"
    gw_attempt,     \* attempts tenacity has started for this invocation
    gw_calls,       \* provider calls of this invocation: <<[input, outcome]>>
    gw_waits,       \* seconds tenacity slept after each failed attempt but the last
    gw_result,      \* the value returned to the caller (when "returned")
    gw_error,       \* the exception kind raised to the caller (when "raised")
    m_op,           \* the matcher method executed last, or "none"
    m_job,          \* [description_embedding, requirements_embedding]
    m_profile,      \* [skills_embedding, experience_embedding, goals_embedding]
    m_args,         \* <<vec1, vec2>> of the last direct _cosine_similarity call
    m_result,       \* the value the matcher method returned
    f_status,       \* find_compatible_jobs: "idle" | "querying" | "returned" | "raised"
    f_jobs,         \* the job_postings table as of the call
    f_profile,      \* the user_profile argument
    f_limit,        \* the limit argument
    f_min_score,    \* the min_score argument
    f_queries,      \* datastore queries this call has issued
    f_outcome,      \* what db.execute did: "none" | "rows" | "error"
    f_rows,         \* result.all(): the rows (job, score) of the query
    f_result,       \* compatible_jobs, the list returned
    f_error,        \* the exception kind raised to the caller
    e_import,       \* import of embeddings.service / embeddings.matcher:
                    \* "pending" | "ok" | "failed"
    weights,        \* self.weights of the singleton semantic_matcher
    e_construct,    \* a SemanticMatcher(config) call under way: the
                    \* argument and whether the call raised
    a_users,        \* ids of the rows of the users table
    a_reset,        \* ids of the rows whose reset_token is stored
    a_nullable,     \* whether the users table takes a row without password
    a_tokens,       \* the tokens the API has issued so far
    u_pc,           \* per request of the users table: "idle" |
                    \* "selecting" | "checked" | "committed", the await the
                    \* handler is suspended at
    u_op,           \* per request: "none" | "register" | "create_user" |
                    \* "forgot_password" | "login" | "get_current_user" |
                    \* "refresh_token"
    u_email,        \* per request: the user it is about, or NoUser
    u_password,     \* per request: "none" | "short" | "long", the password
                    \* of a register request
    u_token,        \* per request: its bearer token, or NoToken
    a_op,           \* the request answered last: "none" | "register" |
                    \* "create_user" | "forgot_password" | "reset_password" |
                    \* "login" | "get_current_user" | "refresh_token"
    a_token,        \* the bearer token of the request
    a_status,       \* 0 while idle, else the HTTP status of the response
    a_user,         \* the id of the user get_current_user returned, or NoUser
    a_issued,       \* the tokens the response carries
    c_pc,           \* per task: "idle" | "await_query" | "filter" | "done" | "raised"
    c_call,         \* per task: the call it runs, [kind, job, profile, limit, min_score]
    c_rows,         \* per call frame: the local variable `rows`
    c_given,        \* per task: the rows the datastore answered its query with
    c_result,       \* per task: the value the call returned
    p_rows,         \* the user_profiles table, in insertion order
    p_pc,           \* per request: "idle" | "lookup" | "embedding" |
                    \* "sleeping" | "embedded" | "selected" | "committed" |
                    \* "done" | "failed"
    p_req,          \* per request: [user_id, skills, career_goals] of create_profile
    p_attempt,      \* per request: the attempts made by the embed_batch
                    \* call under way, 0 when there is none
    p_embed,        \* per request: what embedding_service.embed_profile did
    p_profile,      \* per request: the row `profile` points to, or NoRow
    p_loaded,       \* per request: the column values the select loaded
    p_wrote,        \* per request: whether it committed a change of user_profiles
    p_status        \* per request: the HTTP status of the response, 0 before it

gw_vars == <<gw_op, gw_texts, gw_status, gw_attempt, gw_calls, gw_waits,
            gw_result, gw_error>>
m_vars == <<m_op, m_job, m_profile, m_args, m_result>>
f_vars == <<f_status, f_jobs, f_profile, f_limit, f_min_score, f_queries,
           f_outcome, f_rows, f_result, f_error>>
e_vars == <<e_import, weights, e_construct>>
a_vars == <<a_users, a_reset, a_nullable, a_tokens,
           u_pc, u_op, u_email, u_password, u_token,
           a_op, a_token, a_status, a_user, a_issued>>
c_vars == <<c_pc, c_call, c_rows, c_given, c_result>>
p_vars == <<p_rows, p_pc, p_req, p_attempt, p_embed, p_profile, p_loaded,
           p_wrote, p_status>>
vars == <<gw_vars, m_vars, f_vars, e_vars, a_vars, c_vars, p_vars>>

\* The model runs one call at a time: a call starts when no other call of
\* the service or the matcher is under way.
\* Concurrent calls of the matcher: the tasks that may run at once.
MaxTasks == 2
Tasks == 1..MaxTasks

\* No call of the one-at-a-time part of the model is under way.
SequentialIdle ==
    /\ gw_status = "idle" /\ m_op = "none" /\ f_status = "idle" /\ a_op = "none"
    /\ ~e_construct.attempted

\* Concurrent create_profile requests.
MaxRequests == 2
Requests == 1..MaxRequests

\* Concurrent requests of the handlers that await the users table
\* (register, create_user, forgot_password, login, get_current_user,
\* refresh_token).
MaxUserRequests == 2
UserRequests == 1..MaxUserRequests

MatcherTasksIdle == \A t \in Tasks : c_pc[t] = "idle"
ProfileRequestsIdle == \A r \in Requests : p_pc[r] = "idle"
UserRequestsIdle == \A s \in UserRequests : u_pc[s] = "idle"

\* A request of the auth router or of create_user starts: it may overlap
\* other requests that write the users table, which are suspended at
\* their awaits.
AuthIdle == SequentialIdle /\ MatcherTasksIdle /\ ProfileRequestsIdle

Quiescent == AuthIdle /\ UserRequestsIdle

\* The modules are imported: the classes are defined and the singletons
\* embedding_service and semantic_matcher exist.
Constructed == e_import = "ok"

(***************************************************************************)
(* Bounds of the model.                                                    *)
(***************************************************************************)
\* Longest input text, in characters.
MaxLen == 2
\* Most texts in one direct embed_batch call.
MaxBatch == 3
\* The character budget of a provider input.  The source's budget is 8000
\* (service.py:54 and :119); the model scales it below MaxLen so that
\* truncation happens within the bounded texts.
MaxChars == 1
\* The embedding dimension.  The source's dimension is 768 (service.py:32);
\* the model scales it, no guard of the code reads it.
Dimension == 2

\* stop_after_attempt(3)
MaxAttempts == 3

Min(a, b) == IF a <= b THEN a ELSE b
Max(a, b) == IF a >= b THEN a ELSE b

(***************************************************************************)
(* Texts: sequences of characters; " " stands for any whitespace character *)
(* and "a" for any other.                                                  *)
(***************************************************************************)
Chars == {"a", " "}
Texts == UNION {[1..n -> Chars] : n \in 0..MaxLen}

IsSpace(c) == c = " "

RECURSIVE LStrip(_)
LStrip(s) ==
    IF s = <<>> THEN s
    ELSE IF IsSpace(Head(s)) THEN LStrip(Tail(s)) ELSE s

RECURSIVE RStrip(_)
RStrip(s) ==
    IF s = <<>> THEN s
    ELSE IF IsSpace(s[Len(s)]) THEN RStrip(SubSeq(s, 1, Len(s) - 1)) ELSE s

\* str.strip()
Strip(s) == RStrip(LStrip(s))

\* s[:8000]
Truncate_uncut(s) == s
Truncate(s) == SubSeq(s, 1, Min(Len(s), MaxChars))

\* `not text or not text.strip()`
IsBlank_noStrip(text) == text = <<>>
IsBlank(text) == text = <<>> \/ Strip(text) = <<>>

\* text.strip()[:8000]
ProcessText(text) == Truncate(Strip(text))

\* [t.strip()[:8000] for t in texts if t and t.strip()]
RECURSIVE ProcessedTexts(_)
ProcessedTexts(texts) ==
    IF texts = <<>> THEN <<>>
    ELSE IF IsBlank(Head(texts)) THEN ProcessedTexts(Tail(texts))
    ELSE <<ProcessText(Head(texts))>> \o ProcessedTexts(Tail(texts))

(***************************************************************************)
(* Embeddings.                                                             *)
(***************************************************************************)
\* [0.0] * self.dimension
ZeroVector == [i \in 1..Dimension |-> 0]

\* The external provider is an opaque function from a text to a vector of
\* length Dimension: TextCode is injective and positive, so the vectors of
\* two different inputs differ and none is the zero vector.
CharCode(c) == CASE c = "a" -> 1 [] IsSpace(c) -> 2 [] OTHER -> 3

RECURSIVE TextCode(_)
TextCode(s) ==
    IF s = <<>> THEN 1
    ELSE CharCode(Head(s)) + 4 * TextCode(Tail(s))

\* response.data[k].embedding for the input `input`
ProviderVector(input) == [i \in 1..Dimension |-> TextCode(input)]

\* [item.embedding for item in response.data]: one vector per input, in order
ProviderBatch(inputs) == [k \in 1..Len(inputs) |-> ProviderVector(inputs[k])]

\* What self.client.embeddings.create does on one call.
Outcomes == {"ok", "transient", "permanent"}

(***************************************************************************)
(* tenacity: @retry(stop=stop_after_attempt(3), wait=wait_exponential(...))*)
(* No retry= predicate is given, so every exception is retried; no         *)
(* reraise=True is given, so giving up raises tenacity.RetryError.         *)
(***************************************************************************)
ShouldStop_offByOne(attempt) == attempt > MaxAttempts
ShouldStop(attempt) == attempt >= MaxAttempts

ShouldRetry(outcome) == outcome # "ok"

GiveUpError == "RetryError"

\* wait_exponential(multiplier=1, min=2, max=10), exp_base 2, in seconds
WaitMultiplier == 1
WaitMin == 2
WaitMax == 10
ExpBase == 2

\* The random part of a wait: wait_exponential adds none.
WaitJitter == {0}

\* wait_exponential.__call__ after attempt number `attempt` failed:
\* max(max(0, min), min(multiplier * exp_base ** (attempt - 1), max))
WaitExponential(attempt) ==
    Max(Max(0, WaitMin), Min(WaitMultiplier * ExpBase ^ (attempt - 1), WaitMax))

(***************************************************************************)
(* embed_batch's body, one attempt.                                        *)
(***************************************************************************)
\* The value embed_batch returns without calling the provider, when it does.
BatchShortCircuits(texts) == texts = <<>> \/ ProcessedTexts(texts) = <<>>
BatchShortCircuitValue(texts) ==
    IF texts = <<>> THEN <<>> ELSE [k \in 1..Len(texts) |-> ZeroVector]

\* `return embeddings` after a successful provider call
BatchValue(texts) == ProviderBatch(ProcessedTexts(texts))

(***************************************************************************)
(* embed_profile / embed_job: index the list embed_batch returned.         *)
(***************************************************************************)
\* The outcome of the method once embed_batch returned `embeddings`.
ProfileDict(embeddings) ==
    IF Len(embeddings) < 3
    THEN [status |-> "raised", error |-> "IndexError", value |-> <<>>]
    ELSE [status |-> "returned", error |-> "none",
          value |-> [skills_embedding |-> embeddings[1],
                     experience_embedding |-> embeddings[2],
                     goals_embedding |-> embeddings[3]]]

JobDict(embeddings) ==
    IF Len(embeddings) < 2
    THEN [status |-> "raised", error |-> "IndexError", value |-> <<>>]
    ELSE [status |-> "returned", error |-> "none",
          value |-> [description_embedding |-> embeddings[1],
                     requirements_embedding |-> embeddings[2]]]

\* What the caller of `op` gets once the (inner) call produced `value`.
Finish(op, value) ==
    CASE op = "embed_profile" -> ProfileDict(value)
      [] op = "embed_job" -> JobDict(value)
      [] OTHER -> [status |-> "returned", error |-> "none", value |-> value]

(***************************************************************************)
(* Actions of the embedding service.                                       *)
(***************************************************************************)
Begin(op, texts) ==
    /\ gw_op' = op
    /\ gw_texts' = texts
    /\ gw_status' = "running"
    /\ gw_attempt' = 0
    /\ gw_calls' = <<>>
    /\ gw_waits' = <<>>
    /\ gw_result' = <<>>
    /\ gw_error' = "none"
    /\ UNCHANGED <<m_vars, f_vars, e_vars, a_vars, c_vars, p_vars>>

CallEmbedText ==
    /\ Constructed /\ Quiescent
    /\ \E t \in Texts : Begin("embed_text", <<t>>)

CallEmbedBatch ==
    /\ Constructed /\ Quiescent
    /\ \E n \in 0..MaxBatch : \E ts \in [1..n -> Texts] : Begin("embed_batch", ts)

CallEmbedProfile ==
    /\ Constructed /\ Quiescent
    /\ \E skills \in Texts, experience \in Texts, goals \in Texts :
           Begin("embed_profile", <<skills, experience, goals>>)

CallEmbedJob ==
    /\ Constructed /\ Quiescent
    /\ \E description \in Texts, requirements \in Texts :
           Begin("embed_job", <<description, requirements>>)

\* The input of the provider call an attempt of the running method makes.
ProviderInput ==
    IF gw_op = "embed_text" THEN <<ProcessText(gw_texts[1])>>
    ELSE ProcessedTexts(gw_texts)

ShortCircuits ==
    IF gw_op = "embed_text" THEN IsBlank(gw_texts[1])
    ELSE BatchShortCircuits(gw_texts)

\* An attempt that returns before the provider is called.
AttemptShortCircuit ==
    /\ gw_status = "running"
    /\ ShortCircuits
    /\ gw_attempt' = gw_attempt + 1
    /\ LET value == IF gw_op = "embed_text" THEN ZeroVector
                    ELSE BatchShortCircuitValue(gw_texts)
           fin == Finish(gw_op, value)
       IN /\ gw_status' = fin.status
          /\ gw_error' = fin.error
          /\ gw_result' = fin.value
    /\ UNCHANGED <<gw_op, gw_texts, gw_calls, gw_waits, m_vars, f_vars, e_vars, a_vars, c_vars, p_vars>>

\* An attempt whose provider call succeeds.
AttemptOk ==
    /\ gw_status = "running"
    /\ ~ShortCircuits
    /\ gw_attempt' = gw_attempt + 1
    /\ gw_calls' = Append(gw_calls, [input |-> ProviderInput, outcome |-> "ok"])
    /\ LET value == IF gw_op = "embed_text"
                    THEN ProviderVector(ProcessText(gw_texts[1]))
                    ELSE BatchValue(gw_texts)
           fin == Finish(gw_op, value)
       IN /\ gw_status' = fin.status
          /\ gw_error' = fin.error
          /\ gw_result' = fin.value
    /\ UNCHANGED <<gw_op, gw_texts, gw_waits, m_vars, f_vars, e_vars, a_vars, c_vars, p_vars>>

\* An attempt whose provider call raises: the except block logs and
\* re-raises, tenacity gives up or computes the wait and awaits
\* asyncio.sleep.
AttemptFail ==
    \E outcome \in Outcomes \ {"ok"} :
        /\ gw_status = "running"
        /\ ~ShortCircuits
        /\ gw_attempt' = gw_attempt + 1
        /\ gw_calls' = Append(gw_calls, [input |-> ProviderInput, outcome |-> outcome])
        /\ IF ShouldRetry(outcome) /\ ~ShouldStop(gw_attempt + 1)
           THEN /\ \E jitter \in WaitJitter :
                       gw_waits' = Append(gw_waits,
                                          WaitExponential(gw_attempt + 1) + jitter)
                /\ gw_status' = "sleeping"
                /\ UNCHANGED gw_error
           ELSE /\ gw_status' = "raised"
                /\ gw_error' = IF ShouldRetry(outcome) THEN GiveUpError ELSE outcome
                /\ UNCHANGED gw_waits
        /\ UNCHANGED <<gw_op, gw_texts, gw_result, m_vars, f_vars, e_vars, a_vars, c_vars, p_vars>>

\* asyncio.sleep returns: tenacity calls the method again, which runs to
\* its provider call.
WaitElapsed ==
    /\ gw_status = "sleeping"
    /\ gw_status' = "running"
    /\ UNCHANGED <<gw_op, gw_texts, gw_attempt, gw_calls, gw_waits, gw_result,
                   gw_error, m_vars, f_vars, e_vars, a_vars, c_vars, p_vars>>

\* The caller takes the result; the singleton service is ready again.
Complete ==
    /\ gw_status \in {"returned", "raised"}
    /\ gw_op' = "none"
    /\ gw_texts' = <<>>
    /\ gw_status' = "idle"
    /\ gw_attempt' = 0
    /\ gw_calls' = <<>>
    /\ gw_waits' = <<>>
    /\ gw_result' = <<>>
    /\ gw_error' = "none"
    /\ UNCHANGED <<m_vars, f_vars, e_vars, a_vars, c_vars, p_vars>>

(***************************************************************************)
(* SemanticMatcher.  Floats are fixed-point integers: a similarity x is    *)
(* held as x * One, a weight w as w * One, and a product of two of them    *)
(* (the overall score) as x * w * One * One.  The vectors of the model     *)
(* have integer norms whose products divide One * dot, so every quotient   *)
(* below is exact.                                                         *)
(***************************************************************************)
\* 1.0
One == 100

\* The components of list[float] arguments: the empty list, the zero vector,
\* unit vectors, opposite vectors, vectors at an angle, and a vector of
\* another dimension.
Vectors == {<<>>, <<0, 0>>, <<1, 0>>, <<0, 1>>, <<-1, 0>>, <<3, 4>>, <<4, 3>>, <<1>>}

\* A component that is not a finite float (inf, -inf or nan): every numpy
\* sum, norm and quotient it enters is inf or nan.
Inf == One * One
NonFinite(v) == \E i \in 1..Len(v) : v[i] = Inf

\* How the value of an embedding attribute is held: a list[float] (an object
\* built in memory, as the repository's tests build their jobs and
\* profiles), a numpy array (a Vector column of a row loaded through
\* pgvector) or None (a NULL column).
List(v) == [kind |-> "list", value |-> v]
Ndarray(v) == [kind |-> "ndarray", value |-> v]
None == [kind |-> "None", value |-> <<>>]

\* The values a Vector column of a loaded row can have: arrays of the
\* column's dimension with finite components, or None.
ColumnValues == {Ndarray(<<1, 0>>), Ndarray(<<0, 0>>), None}

\* Lists of floats, one of them with a component that is not finite.
ListVectors == {List(v) : v \in Vectors \cup {<<Inf, 0>>}}

\* The arguments of a direct _cosine_similarity call.
CosineArguments == ListVectors \cup ColumnValues

\* No SemanticMatcher exists: there is no weights attribute.
NoWeights == [skills |-> 0, experience |-> 0, goals |-> 0]

\* The literal __init__ assigns to self.weights.
Weights_unnormalised == [skills |-> 40, experience |-> 35, goals |-> 35]
Weights_swapped == [skills |-> 35, experience |-> 40, goals |-> 25]
Weights == [skills |-> 40, experience |-> 35, goals |-> 25]

RECURSIVE SumProducts(_, _)
SumProducts(v1, v2) ==
    IF v1 = <<>> THEN 0
    ELSE Head(v1) * Head(v2) + SumProducts(Tail(v1), Tail(v2))

\* np.dot(v1, v2) of two 1-D arrays: ValueError when the shapes differ
NpDot(v1, v2) ==
    IF Len(v1) # Len(v2) THEN [raised |-> TRUE, value |-> 0]
    ELSE [raised |-> FALSE, value |-> SumProducts(v1, v2)]

IntSqrt(n) == CHOOSE r \in 0..n : r * r <= n /\ (r + 1) * (r + 1) > n

\* np.linalg.norm(v)
NpNorm(v) == IntSqrt(SumProducts(v, v))

\* max(0.0, min(1.0, similarity))
Clamp_noLowerBound(x) == Min(One, x)
Clamp(x) == Max(0, Min(One, x))

\* `not vec` (matcher.py:298): None and the empty list are falsy, a
\* non-empty list is truthy, an array of one element has the truth value of
\* the element, and an array of more elements raises ValueError ("The truth
\* value of an array with more than one element is ambiguous").
Truth(vec) ==
    IF vec.kind = "None" THEN [raised |-> FALSE, truthy |-> FALSE]
    ELSE IF vec.kind = "list"
         THEN [raised |-> FALSE, truthy |-> vec.value # <<>>]
    ELSE IF Len(vec.value) > 1 THEN [raised |-> TRUE, truthy |-> FALSE]
    ELSE [raised |-> FALSE,
          truthy |-> vec.value # <<>> /\ vec.value[1] # 0]

\* The try block of _cosine_similarity (matcher.py:302-329) on two
\* non-empty sequences of components: np.dot raises on unequal lengths and
\* `except Exception` returns 0.0; with a non-finite component the quotient
\* is nan, `norm_product == 0` is False even against a zero vector, and
\* max(0.0, min(1.0, nan)) is 1.0.
Similarity(v1, v2) ==
    LET dot == NpDot(v1, v2)
    IN IF dot.raised THEN 0
       ELSE IF NonFinite(v1) \/ NonFinite(v2) THEN One
       ELSE IF NpNorm(v1) * NpNorm(v2) = 0 THEN 0
       ELSE Clamp((dot.value * One) \div (NpNorm(v1) * NpNorm(v2)))

\* _cosine_similarity: [raised] says whether an exception leaves the method,
\* [value] is the float it returns.  `if not vec1 or not vec2` stands before
\* the try block: the ValueError of an array's truth value leaves the
\* method, and vec2 is looked at only when vec1 is truthy.
CosineOutcome(vec1, vec2) ==
    IF Truth(vec1).raised THEN [raised |-> TRUE, value |-> 0]
    ELSE IF ~Truth(vec1).truthy THEN [raised |-> FALSE, value |-> 0]
    ELSE IF Truth(vec2).raised THEN [raised |-> TRUE, value |-> 0]
    ELSE IF ~Truth(vec2).truthy THEN [raised |-> FALSE, value |-> 0]
    ELSE [raised |-> FALSE, value |-> Similarity(vec1.value, vec2.value)]

CosineSimilarity(vec1, vec2) == CosineOutcome(vec1, vec2).value

\* The weighted overall score of calculate_compatibility.
OverallScore(skills_sim, experience_sim, goals_sim) ==
    skills_sim * weights.skills
    + experience_sim * weights.experience
    + goals_sim * weights.goals

\* calculate_compatibility ends with the exception of a _cosine_similarity
\* call: there is no result dictionary.
Raised == [raised |-> TRUE, overall_score |-> 0, skills_match |-> 0,
           experience_match |-> 0, goals_alignment |-> 0]

CalculateCompatibility_pairSkillsWithRequirements(job, user_profile) ==
    LET skills == CosineOutcome(job.requirements_embedding,
                                user_profile.skills_embedding)
        experience == CosineOutcome(job.description_embedding,
                                    user_profile.experience_embedding)
        goals == CosineOutcome(job.description_embedding,
                               user_profile.goals_embedding)
    IN IF skills.raised \/ experience.raised \/ goals.raised THEN Raised
       ELSE [raised |-> FALSE,
             overall_score |-> OverallScore(skills.value, experience.value,
                                            goals.value),
             skills_match |-> skills.value,
             experience_match |-> experience.value,
             goals_alignment |-> goals.value]

\* calculate_compatibility: the three _cosine_similarity calls, the weighted
\* sum and the result dictionary; an exception of one of the calls leaves
\* the method ([raised]).
CalculateCompatibility(job, user_profile) ==
    LET skills == CosineOutcome(job.description_embedding,
                                user_profile.skills_embedding)
        experience == CosineOutcome(job.requirements_embedding,
                                    user_profile.experience_embedding)
        goals == CosineOutcome(job.description_embedding,
                               user_profile.goals_embedding)
    IN IF skills.raised \/ experience.raised \/ goals.raised THEN Raised
       ELSE [raised |-> FALSE,
             overall_score |-> OverallScore(skills.value, experience.value,
                                            goals.value),
             skills_match |-> skills.value,
             experience_match |-> experience.value,
             goals_alignment |-> goals.value]

\* The jobs and profiles calculate_compatibility is called with: objects
\* built in memory, whose embeddings are lists, and rows loaded from the
\* datastore, whose embeddings are arrays or None.
Jobs == [description_embedding : ListVectors, requirements_embedding : ListVectors]
            \cup [description_embedding : ColumnValues,
                  requirements_embedding : ColumnValues]
Profiles == [skills_embedding : ListVectors, experience_embedding : ListVectors,
             goals_embedding : ListVectors]
                \cup [skills_embedding : ColumnValues,
                      experience_embedding : ColumnValues,
                      goals_embedding : ColumnValues]

(***************************************************************************)
(* Actions of the matcher.  The singleton holds no state of its own but    *)
(* self.weights; each action records the call and what it returned.        *)
(***************************************************************************)
\* A direct call of the static method _cosine_similarity(vec1, vec2).
CallCosineSimilarity ==
    /\ Constructed /\ Quiescent
    /\ \E vec1 \in CosineArguments, vec2 \in CosineArguments :
           /\ m_op' = "cosine_similarity"
           /\ m_args' = <<vec1, vec2>>
           /\ m_result' = CosineOutcome(vec1, vec2)
           /\ UNCHANGED <<m_job, m_profile, gw_vars, f_vars, e_vars, a_vars, c_vars, p_vars>>

\* A call of calculate_compatibility(job, user_profile).
CallCalculateCompatibility ==
    /\ Constructed /\ Quiescent
    /\ \E job \in Jobs, user_profile \in Profiles :
           /\ m_op' = "calculate_compatibility"
           /\ m_job' = job
           /\ m_profile' = user_profile
           /\ m_result' = CalculateCompatibility(job, user_profile)
           /\ UNCHANGED <<m_args, gw_vars, f_vars, e_vars, a_vars, c_vars, p_vars>>

\* The caller takes the result of the matcher call.
MatcherReturn ==
    /\ m_op # "none"
    /\ m_op' = "none"
    /\ m_job' = <<>>
    /\ m_profile' = <<>>
    /\ m_args' = <<>>
    /\ m_result' = <<>>
    /\ UNCHANGED <<gw_vars, f_vars, e_vars, a_vars, c_vars, p_vars>>

(***************************************************************************)
(* find_compatible_jobs and the datastore query it issues.                 *)
(***************************************************************************)
\* Most rows of the job_postings table.
MaxJobs == 2
\* Largest limit argument; the smallest is -1.
MaxLimit == 2

\* How a session hands over the Vector columns of the rows it returns: an
\* AsyncSession on the pgvector type gives numpy arrays, a stand-in session
\* (the AsyncMock of the repository's tests) gives what its rows were built
\* with, lists.
Deliveries == {"list", "ndarray"}
Column(held, v) == IF held = "list" THEN List(v) ELSE Ndarray(v)

\* Vector(768) columns: every stored embedding has the one dimension; the
\* columns are nullable (requirements_embedding is NULL in some rows).
StoredJobs(held) ==
    [description_embedding : {Column(held, <<1, 0>>), Column(held, <<3, 4>>)},
     requirements_embedding : {Column(held, <<1, 0>>), Column(held, <<-1, 0>>),
                               Column(held, <<0, 0>>), None},
     is_active : {0, 1}]
\* The user_profile argument: a loaded row or an object built in memory.
StoredProfiles(held) ==
    [skills_embedding : {Column(held, <<1, 0>>), Column(held, <<0, 0>>)},
     experience_embedding : {Column(held, <<1, 0>>), Column(held, <<3, 4>>)},
     goals_embedding : {Column(held, <<1, 0>>), Column(held, <<-1, 0>>)}]

\* min_score arguments: -0.1, 0.0, 0.6 (the default) and 70.0
MinScores == {-10 * One, 0, 60 * One, 70 * One * One}
Limits == (-1)..MaxLimit

\* A float of the datastore: NULL, NaN, or a number in units of
\* 1 / (One * One).
Null == [null |-> TRUE, nan |-> FALSE, value |-> 0]
NaN == [null |-> FALSE, nan |-> TRUE, value |-> 0]
Number(x) == [null |-> FALSE, nan |-> FALSE, value |-> x]

\* 1 - cosine_distance(a, b) of pgvector: NULL when an operand is NULL, else
\* the raw cosine in [-1, 1], not clamped at 0; NaN when a norm is zero.
DatastoreCosine(a, b) ==
    LET norm_product == NpNorm(a.value) * NpNorm(b.value)
    IN IF a.kind = "None" \/ b.kind = "None" THEN Null
       ELSE IF norm_product = 0 THEN NaN
       ELSE Number((SumProducts(a.value, b.value) * One) \div norm_product)

\* The expression labelled "compatibility_score" in the query.
DatastoreScore_pairSkillsWithRequirements(job, user_profile) ==
    LET skills == DatastoreCosine(job.requirements_embedding,
                                  user_profile.skills_embedding)
        experience == DatastoreCosine(job.description_embedding,
                                      user_profile.experience_embedding)
        goals == DatastoreCosine(job.description_embedding,
                                 user_profile.goals_embedding)
    IN IF skills.null \/ experience.null \/ goals.null THEN Null
       ELSE IF skills.nan \/ experience.nan \/ goals.nan THEN NaN
       ELSE Number(skills.value * weights.skills
                   + experience.value * weights.experience
                   + goals.value * weights.goals)

DatastoreScore(job, user_profile) ==
    LET skills == DatastoreCosine(job.description_embedding,
                                  user_profile.skills_embedding)
        experience == DatastoreCosine(job.requirements_embedding,
                                      user_profile.experience_embedding)
        goals == DatastoreCosine(job.description_embedding,
                                 user_profile.goals_embedding)
    IN IF skills.null \/ experience.null \/ goals.null THEN Null
       ELSE IF skills.nan \/ experience.nan \/ goals.nan THEN NaN
       ELSE Number(skills.value * weights.skills
                   + experience.value * weights.experience
                   + goals.value * weights.goals)

\* ORDER BY compatibility_score DESC: a may come before b.  The datastore
\* puts NULL first in a descending order and sorts NaN above every number.
SortsBefore(a, b) ==
    a.null \/ (~b.null /\ (a.nan \/ (~b.nan /\ a.value >= b.value)))

\* .where(JobPosting.is_active == 1)
ActiveIds_all(jobs) == 1..Len(jobs)
ActiveIds(jobs) == {i \in 1..Len(jobs) : jobs[i].is_active = 1}

\* .limit(limit)
Limited_unlimited(s, limit) == s
Limited(s, limit) == SubSeq(s, 1, Min(limit, Len(s)))

\* The lists of rows the query may return: the active jobs in an order
\* that is descending by score (rows of equal score in any order), cut to
\* the first `limit`.
QueryRows(jobs, user_profile, limit) ==
    LET ids == ActiveIds(jobs)
        n == Cardinality(ids)
        score(i) == DatastoreScore(jobs[i], user_profile)
        orders == {s \in [1..n -> ids] :
                      /\ \A i, j \in 1..n : i # j => s[i] # s[j]
                      /\ \A i, j \in 1..n :
                            i < j => SortsBefore(score(s[i]), score(s[j]))}
    IN {Limited([k \in 1..n |-> [id |-> s[k], job |-> jobs[s[k]],
                                 score |-> score(s[k])]], limit) : s \in orders}

\* `if score >= min_score` on a float: a comparison with NaN is False
KeepsRow_noFilter(score, min_score) == TRUE
KeepsRow(score, min_score) == ~score.nan /\ score.value >= min_score

\* How the loop over rows ends: with the list compatible_jobs, or with an
\* exception that leaves find_compatible_jobs.
Returned(items) == [raised |-> FALSE, error |-> "none", items |-> items]
Raises(error) == [raised |-> TRUE, error |-> error, items |-> <<>>]

\* The loop over rows that builds compatible_jobs.  A NULL score is None and
\* `score >= min_score` raises TypeError (matcher.py:153); for a row that is
\* kept, the exception of calculate_compatibility (matcher.py:154, the
\* ValueError of matcher.py:298 on array embeddings) ends the call.
RECURSIVE CompatibleJobs(_, _, _)
CompatibleJobs(rows, user_profile, min_score) ==
    IF rows = <<>> THEN Returned(<<>>)
    ELSE LET row == Head(rows)
             breakdown == CalculateCompatibility(row.job, user_profile)
             rest == CompatibleJobs(Tail(rows), user_profile, min_score)
         IN IF row.score.null THEN Raises("TypeError")
            ELSE IF ~KeepsRow(row.score, min_score) THEN rest
            ELSE IF breakdown.raised THEN Raises("ValueError")
            ELSE IF rest.raised THEN rest
            ELSE Returned(<<[id |-> row.id,
                             job |-> row.job,
                             compatibility_score |-> row.score.value,
                             breakdown |-> breakdown]>> \o rest.items)

\* What the caller gets when db.execute raises (the datastore is down, it
\* rejects the statement, or the statement does not compile):
\* AsyncTraceContext.__aexit__ returns False and trace_function re-raises,
\* so the error propagates.
OnQueryError_swallowed == [status |-> "returned", error |-> "none"]
OnQueryError == [status |-> "raised", error |-> "DatastoreError"]

\* The datastore rejects a negative LIMIT; LIMIT 0 gives no rows.
DatastoreAccepts(limit) == limit >= 0

\* find_compatible_jobs(db, user_profile, limit, min_score) is called.
CallFindCompatibleJobs ==
    /\ Constructed /\ Quiescent
    /\ \E n \in 0..MaxJobs, delivery \in Deliveries, held \in Deliveries :
       \E jobs \in [1..n -> StoredJobs(delivery)] :
       \E user_profile \in StoredProfiles(held), limit \in Limits,
          min_score \in MinScores :
           /\ f_status' = "querying"
           /\ f_jobs' = jobs
           /\ f_profile' = user_profile
           /\ f_limit' = limit
           /\ f_min_score' = min_score
           /\ f_queries' = 0
           /\ f_outcome' = "none"
           /\ f_rows' = <<>>
           /\ f_result' = <<>>
           /\ f_error' = "none"
           /\ UNCHANGED <<gw_vars, m_vars, e_vars, a_vars, c_vars, p_vars>>

\* db.execute(query) answers; the rows are filtered, and the call returns
\* compatible_jobs or ends with the exception of the loop.
QueryOk ==
    /\ f_status = "querying"
    /\ DatastoreAccepts(f_limit)
    /\ \E rows \in QueryRows(f_jobs, f_profile, f_limit) :
           /\ f_queries' = f_queries + 1
           /\ f_outcome' = "rows"
           /\ f_rows' = rows
           /\ f_result' = CompatibleJobs(rows, f_profile, f_min_score).items
           /\ f_error' = CompatibleJobs(rows, f_profile, f_min_score).error
           /\ f_status' = IF CompatibleJobs(rows, f_profile, f_min_score).raised
                          THEN "raised" ELSE "returned"
    /\ UNCHANGED <<f_jobs, f_profile, f_limit, f_min_score, gw_vars, m_vars, e_vars, a_vars, c_vars, p_vars>>

\* db.execute(query) raises.
QueryFail ==
    /\ f_status = "querying"
    /\ f_queries' = f_queries + 1
    /\ f_outcome' = "error"
    /\ f_status' = OnQueryError.status
    /\ f_error' = OnQueryError.error
    /\ UNCHANGED <<f_jobs, f_profile, f_limit, f_min_score, f_rows, f_result,
                   gw_vars, m_vars, e_vars, a_vars, c_vars, p_vars>>

\* The caller takes the result of find_compatible_jobs.
FindReturn ==
    /\ f_status \in {"returned", "raised"}
    /\ f_status' = "idle"
    /\ f_jobs' = <<>>
    /\ f_profile' = <<>>
    /\ f_limit' = 0
    /\ f_min_score' = 0
    /\ f_queries' = 0
    /\ f_outcome' = "none"
    /\ f_rows' = <<>>
    /\ f_result' = <<>>
    /\ f_error' = "none"
    /\ UNCHANGED <<gw_vars, m_vars, e_vars, a_vars, c_vars, p_vars>>

(***************************************************************************)
(* Authentication (src/utils/auth.py, src/api/auth.py).  A token is the    *)
(* record of what jwt.decode makes of it: its "type" and "sub" claims,     *)
(* whether it is signed with settings.secret_key and whether its "exp" has *)
(* passed.  An absent "type" is "none", an absent "sub" is NoUser.         *)
(***************************************************************************)
\* Most rows of the users table.
MaxUsers == 2

UserIds == 1..MaxUsers
\* No user id: a payload without "sub", a response without a user.
NoUser == 0
TokenTypes == {"access", "refresh", "none"}
Tokens == [type : TokenTypes, sub : UserIds \cup {NoUser},
           signed : BOOLEAN, expired : BOOLEAN]

\* create_access_token(data={"sub": sub})
CreateAccessToken(sub) ==
    [type |-> "access", sub |-> sub, signed |-> TRUE, expired |-> FALSE]

\* create_refresh_token(data={"sub": sub})
CreateRefreshToken(sub) ==
    [type |-> "refresh", sub |-> sub, signed |-> TRUE, expired |-> FALSE]

\* decode_token: the payload, or None on JWTError (bad signature, expired)
DecodeToken(token) ==
    IF token.signed /\ ~token.expired
    THEN [decoded |-> TRUE, type |-> token.type, sub |-> token.sub]
    ELSE [decoded |-> FALSE, type |-> "none", sub |-> NoUser]

\* `payload.get("type") != type`
WrongType_unchecked(payload, type) == FALSE
WrongType(payload, type) == payload.type # type

Unauthorized == [status |-> 401, user |-> NoUser, issued |-> {}]
Ok == [status |-> 200, user |-> NoUser, issued |-> {}]
BadRequest == [status |-> 400, user |-> NoUser, issued |-> {}]
\* An exception no handler catches leaves the route: 500.
ServerError == [status |-> 500, user |-> NoUser, issued |-> {}]
\* No response yet: the handler goes on to its next await.
Proceed == [status |-> 0, user |-> NoUser, issued |-> {}]

\* What an await on the session (db.execute, db.commit, db.refresh) does:
\* it returns, or it raises (connection lost, statement refused).
Datastore == {"ok", "fails"}

\* The attributes class User maps (db/models.py); the handlers of the
\* auth router import this class.
UserAttributes ==
    {"id", "email", "full_name", "account_tier", "pro_expires_at",
     "total_points", "current_streak", "longest_streak", "last_activity_date",
     "profile_public", "show_in_leaderboard", "show_in_feed",
     "referral_code", "referred_by", "created_at", "updated_at",
     "profiles", "applications", "badges", "agent_templates", "referrals"}

\* User(**keywords): the declarative constructor raises TypeError for a
\* keyword that is no attribute of the class.
Constructs(keywords) == keywords \subseteq UserAttributes

\* User.name, and user.name of a loaded row: AttributeError when the class
\* has no such attribute.
HasAttribute(name) == name \in UserAttributes

\* get_current_user and refresh_token before their select: the checks of
\* the payload.
TokenChecked(token, type) ==
    LET payload == DecodeToken(token)
    IN IF ~payload.decoded \/ WrongType(payload, type) THEN Unauthorized
       ELSE IF payload.sub = NoUser THEN Unauthorized
       ELSE Proceed

\* get_current_user
GetCurrentUser(token, users, datastore) ==
    IF TokenChecked(token, "access") # Proceed
    THEN TokenChecked(token, "access")
    ELSE IF datastore = "fails" THEN ServerError
    ELSE IF DecodeToken(token).sub \notin users THEN Unauthorized
    ELSE [status |-> 200, user |-> DecodeToken(token).sub, issued |-> {}]

\* refresh_token
RefreshToken(token, users, datastore) ==
    IF TokenChecked(token, "refresh") # Proceed
    THEN TokenChecked(token, "refresh")
    ELSE IF datastore = "fails" THEN ServerError
    ELSE IF DecodeToken(token).sub \notin users THEN Unauthorized
    ELSE [status |-> 200, user |-> NoUser,
          issued |-> {CreateAccessToken(DecodeToken(token).sub),
                      CreateRefreshToken(DecodeToken(token).sub)}]

\* register from the answer of its select: a taken email and a short
\* password are refused with 400; for every other request User(...) is
\* called with hashed_password and raises before anything is added to the
\* session.
Register(u, users, password_long_enough, datastore) ==
    IF datastore = "fails" THEN ServerError
    ELSE IF u \in users THEN BadRequest
    ELSE IF ~password_long_enough THEN BadRequest
    ELSE IF ~Constructs({"email", "full_name", "hashed_password",
                         "verification_token", "verification_token_expires"})
    THEN ServerError
    ELSE Proceed

\* create_user from the answer of its select to `await db.commit()`.
CreateUser(u, users, datastore) ==
    IF datastore = "fails" THEN ServerError
    ELSE IF u \in users THEN BadRequest
    ELSE IF ~Constructs({"email", "full_name"}) THEN ServerError
    ELSE Proceed

\* `await db.commit()` of a new row of users: the INSERT is refused when
\* the email is in the table by now (unique) or when the table has a
\* hashed_password column that does not take NULL (the row has none).
UserInserted(u, users, nullable, datastore) ==
    /\ datastore = "ok"
    /\ u \notin users
    /\ nullable

\* forgot_password from the answer of its select to `await db.commit()`:
\* an unknown email is answered like a known one.
ForgotPassword(u, users, datastore) ==
    IF datastore = "fails" THEN ServerError
    ELSE IF u \notin users THEN Ok
    ELSE Proceed

\* The rows whose reset token the commit of forgot_password stores:
\* user.reset_token and user.reset_token_expires are no mapped attributes,
\* the assignments set plain attributes of the object and the commit
\* writes nothing.
ResetTokenStored(u) == IF HasAttribute("reset_token") THEN {u} ELSE {}

\* reset_password up to its first await: the select is built from
\* User.reset_token, which raises whatever the request is.
ResetPassword ==
    IF ~HasAttribute("reset_token") THEN ServerError ELSE Proceed

\* login from the answer of its select: `not user` answers 401; for a row
\* that exists user.hashed_password is read and raises.
Login(u, users, datastore) ==
    IF datastore = "fails" THEN ServerError
    ELSE IF u \notin users THEN Unauthorized
    ELSE IF ~HasAttribute("hashed_password") THEN ServerError
    ELSE [status |-> 200, user |-> NoUser,
          issued |-> {CreateAccessToken(u), CreateRefreshToken(u)}]

\* No token: what a request without a bearer token holds.
NoToken == <<>>

\* The request of slot s is suspended at the first await of `op`, the
\* select of the users table.
Suspend(s, op, u, password, token) ==
    /\ u_pc' = [u_pc EXCEPT ![s] = "selecting"]
    /\ u_op' = [u_op EXCEPT ![s] = op]
    /\ u_email' = [u_email EXCEPT ![s] = u]
    /\ u_password' = [u_password EXCEPT ![s] = password]
    /\ u_token' = [u_token EXCEPT ![s] = token]

\* The request of slot s is over.
Release(s) ==
    /\ u_pc' = [u_pc EXCEPT ![s] = "idle"]
    /\ u_op' = [u_op EXCEPT ![s] = "none"]
    /\ u_email' = [u_email EXCEPT ![s] = NoUser]
    /\ u_password' = [u_password EXCEPT ![s] = "none"]
    /\ u_token' = [u_token EXCEPT ![s] = NoToken]

\* The handler `op` answers with `out`.
Respond(op, token, out) ==
    /\ a_op' = op
    /\ a_token' = token
    /\ a_status' = out.status
    /\ a_user' = out.user
    /\ a_issued' = out.issued

\* register arrives and is suspended at `await db.execute` of the select
\* by email.
RegisterCall(s) ==
    /\ AuthIdle
    /\ u_pc[s] = "idle"
    /\ \E u \in UserIds, password \in {"short", "long"} :
           Suspend(s, "register", u, password, NoToken)
    /\ UNCHANGED <<a_users, a_reset, a_nullable, a_tokens,
                   a_op, a_token, a_status, a_user, a_issued,
                   gw_vars, m_vars, f_vars, e_vars, c_vars, p_vars>>

\* register, the select answers: the request is refused, or the
\* construction of the User raises; no row is added and no token issued.
RegisterSelected(s) ==
    /\ a_op = "none"
    /\ u_pc[s] = "selecting" /\ u_op[s] = "register"
    /\ \E datastore \in Datastore :
           Respond("register", NoToken,
                   Register(u_email[s], a_users, u_password[s] = "long",
                            datastore))
    /\ Release(s)
    /\ UNCHANGED <<a_users, a_reset, a_nullable, a_tokens,
                   gw_vars, m_vars, f_vars, e_vars, c_vars, p_vars>>

\* create_user of the users router, whose module imports
\* embedding_service, arrives and is suspended at `await db.execute` of
\* the select by email.
CreateUserCall(s) ==
    /\ Constructed /\ AuthIdle
    /\ u_pc[s] = "idle"
    /\ \E u \in UserIds : Suspend(s, "create_user", u, "none", NoToken)
    /\ UNCHANGED <<a_users, a_reset, a_nullable, a_tokens,
                   a_op, a_token, a_status, a_user, a_issued,
                   gw_vars, m_vars, f_vars, e_vars, c_vars, p_vars>>

\* create_user, the select answers: the request is refused, or the User
\* is added to the session and the handler is suspended at
\* `await db.commit()`.
CreateUserSelected(s) ==
    /\ a_op = "none"
    /\ u_pc[s] = "selecting" /\ u_op[s] = "create_user"
    /\ \E datastore \in Datastore :
           LET out == CreateUser(u_email[s], a_users, datastore)
           IN IF out = Proceed
              THEN /\ u_pc' = [u_pc EXCEPT ![s] = "checked"]
                   /\ UNCHANGED <<u_op, u_email, u_password, u_token,
                                  a_op, a_token, a_status, a_user, a_issued>>
              ELSE /\ Respond("create_user", NoToken, out)
                   /\ Release(s)
    /\ UNCHANGED <<a_users, a_reset, a_nullable, a_tokens,
                   gw_vars, m_vars, f_vars, e_vars, c_vars, p_vars>>

\* create_user, `await db.commit()`: a row of users without a password is
\* inserted and the handler is suspended at `await db.refresh(user)`; or
\* the commit raises.
CreateUserCommit(s) ==
    /\ a_op = "none"
    /\ u_pc[s] = "checked" /\ u_op[s] = "create_user"
    /\ \E datastore \in Datastore :
           IF UserInserted(u_email[s], a_users, a_nullable, datastore)
           THEN /\ a_users' = a_users \cup {u_email[s]}
                /\ u_pc' = [u_pc EXCEPT ![s] = "committed"]
                /\ UNCHANGED <<u_op, u_email, u_password, u_token,
                               a_op, a_token, a_status, a_user, a_issued>>
           ELSE /\ Respond("create_user", NoToken, ServerError)
                /\ Release(s)
                /\ UNCHANGED a_users
    /\ UNCHANGED <<a_reset, a_nullable, a_tokens,
                   gw_vars, m_vars, f_vars, e_vars, c_vars, p_vars>>

\* create_user from `await db.refresh(user)` to its end: the id of the
\* new row is returned and no token; or the refresh raises and the
\* committed row stays.
CreateUserRefresh(s) ==
    /\ a_op = "none"
    /\ u_pc[s] = "committed" /\ u_op[s] = "create_user"
    /\ \E datastore \in Datastore :
           Respond("create_user", NoToken,
                   IF datastore = "fails" THEN ServerError
                   ELSE [status |-> 200, user |-> u_email[s], issued |-> {}])
    /\ Release(s)
    /\ UNCHANGED <<a_users, a_reset, a_nullable, a_tokens,
                   gw_vars, m_vars, f_vars, e_vars, c_vars, p_vars>>

\* forgot_password arrives and is suspended at `await db.execute` of the
\* select by email.
ForgotPasswordCall(s) ==
    /\ AuthIdle
    /\ u_pc[s] = "idle"
    /\ \E u \in UserIds : Suspend(s, "forgot_password", u, "none", NoToken)
    /\ UNCHANGED <<a_users, a_reset, a_nullable, a_tokens,
                   a_op, a_token, a_status, a_user, a_issued,
                   gw_vars, m_vars, f_vars, e_vars, c_vars, p_vars>>

\* forgot_password, the select answers: an unknown email is answered, for
\* a known one the handler sets the two attributes and is suspended at
\* `await db.commit()`.
ForgotPasswordSelected(s) ==
    /\ a_op = "none"
    /\ u_pc[s] = "selecting" /\ u_op[s] = "forgot_password"
    /\ \E datastore \in Datastore :
           LET out == ForgotPassword(u_email[s], a_users, datastore)
           IN IF out = Proceed
              THEN /\ u_pc' = [u_pc EXCEPT ![s] = "checked"]
                   /\ UNCHANGED <<u_op, u_email, u_password, u_token,
                                  a_op, a_token, a_status, a_user, a_issued>>
              ELSE /\ Respond("forgot_password", NoToken, out)
                   /\ Release(s)
    /\ UNCHANGED <<a_users, a_reset, a_nullable, a_tokens,
                   gw_vars, m_vars, f_vars, e_vars, c_vars, p_vars>>

\* forgot_password from `await db.commit()` to its end: the commit
\* returns, the token is mailed or logged and the handler answers; or the
\* commit raises.  The rows whose reset token is stored are as before.
ForgotPasswordCommit(s) ==
    /\ a_op = "none"
    /\ u_pc[s] = "checked" /\ u_op[s] = "forgot_password"
    /\ \E datastore \in Datastore :
           /\ Respond("forgot_password", NoToken,
                      IF datastore = "fails" THEN ServerError ELSE Ok)
           /\ a_reset' = IF datastore = "fails" THEN a_reset
                         ELSE a_reset \cup ResetTokenStored(u_email[s])
    /\ Release(s)
    /\ UNCHANGED <<a_users, a_nullable, a_tokens,
                   gw_vars, m_vars, f_vars, e_vars, c_vars, p_vars>>

\* POST /reset-password: the handler raises while it builds its select,
\* before its first await.
CallResetPassword ==
    /\ AuthIdle
    /\ ResetPassword # Proceed
    /\ Respond("reset_password", NoToken, ResetPassword)
    /\ UNCHANGED <<a_users, a_reset, a_nullable, a_tokens,
                   u_pc, u_op, u_email, u_password, u_token,
                   gw_vars, m_vars, f_vars, e_vars, c_vars, p_vars>>

\* POST /login arrives and is suspended at `await db.execute` of the
\* select by email.
CallLogin(s) ==
    /\ AuthIdle
    /\ u_pc[s] = "idle"
    /\ \E u \in UserIds : Suspend(s, "login", u, "none", NoToken)
    /\ UNCHANGED <<a_users, a_reset, a_nullable, a_tokens,
                   a_op, a_token, a_status, a_user, a_issued,
                   gw_vars, m_vars, f_vars, e_vars, c_vars, p_vars>>

\* login, the select answers.
LoginSelected(s) ==
    /\ a_op = "none"
    /\ u_pc[s] = "selecting" /\ u_op[s] = "login"
    /\ \E datastore \in Datastore :
           LET out == Login(u_email[s], a_users, datastore)
           IN /\ Respond("login", NoToken, out)
              /\ a_tokens' = a_tokens \cup out.issued
    /\ Release(s)
    /\ UNCHANGED <<a_users, a_reset, a_nullable,
                   gw_vars, m_vars, f_vars, e_vars, c_vars, p_vars>>

\* A request to a route that depends on get_current_user arrives: a
\* token that fails the checks of the payload is answered at once, with
\* any other the dependency is suspended at `await db.execute` of the
\* select by id.
CallGetCurrentUser(s) ==
    /\ AuthIdle
    /\ u_pc[s] = "idle"
    /\ \E token \in Tokens :
           LET out == TokenChecked(token, "access")
           IN IF out = Proceed
              THEN /\ Suspend(s, "get_current_user", DecodeToken(token).sub,
                              "none", token)
                   /\ UNCHANGED <<a_op, a_token, a_status, a_user, a_issued>>
              ELSE /\ Respond("get_current_user", token, out)
                   /\ UNCHANGED <<u_pc, u_op, u_email, u_password, u_token>>
    /\ UNCHANGED <<a_users, a_reset, a_nullable, a_tokens,
                   gw_vars, m_vars, f_vars, e_vars, c_vars, p_vars>>

\* get_current_user, the select answers.
GetCurrentUserSelected(s) ==
    /\ a_op = "none"
    /\ u_pc[s] = "selecting" /\ u_op[s] = "get_current_user"
    /\ \E datastore \in Datastore :
           Respond("get_current_user", u_token[s],
                   GetCurrentUser(u_token[s], a_users, datastore))
    /\ Release(s)
    /\ UNCHANGED <<a_users, a_reset, a_nullable, a_tokens,
                   gw_vars, m_vars, f_vars, e_vars, c_vars, p_vars>>

\* POST /refresh arrives: a token that fails the checks of the payload is
\* answered at once, with any other the handler is suspended at
\* `await db.execute` of the select by id.
CallRefreshToken(s) ==
    /\ AuthIdle
    /\ u_pc[s] = "idle"
    /\ \E token \in Tokens :
           LET out == TokenChecked(token, "refresh")
           IN IF out = Proceed
              THEN /\ Suspend(s, "refresh_token", DecodeToken(token).sub,
                              "none", token)
                   /\ UNCHANGED <<a_op, a_token, a_status, a_user, a_issued>>
              ELSE /\ Respond("refresh_token", token, out)
                   /\ UNCHANGED <<u_pc, u_op, u_email, u_password, u_token>>
    /\ UNCHANGED <<a_users, a_reset, a_nullable, a_tokens,
                   gw_vars, m_vars, f_vars, e_vars, c_vars, p_vars>>

\* refresh_token, the select answers: the token pair of a user whose row
\* exists is created and returned.
RefreshTokenSelected(s) ==
    /\ a_op = "none"
    /\ u_pc[s] = "selecting" /\ u_op[s] = "refresh_token"
    /\ \E datastore \in Datastore :
           LET out == RefreshToken(u_token[s], a_users, datastore)
           IN /\ Respond("refresh_token", u_token[s], out)
              /\ a_tokens' = a_tokens \cup out.issued
    /\ Release(s)
    /\ UNCHANGED <<a_users, a_reset, a_nullable,
                   gw_vars, m_vars, f_vars, e_vars, c_vars, p_vars>>

\* The response is sent.
AuthReturn ==
    /\ a_op # "none"
    /\ a_op' = "none"
    /\ a_token' = NoToken
    /\ a_status' = 0
    /\ a_user' = NoUser
    /\ a_issued' = {}
    /\ UNCHANGED <<a_users, a_reset, a_nullable, a_tokens,
                   u_pc, u_op, u_email, u_password, u_token,
                   gw_vars, m_vars, f_vars, e_vars, c_vars, p_vars>>

\* The tables are empty.  The users table is the one of the deployment:
\* made from the model classes it has no hashed_password column, made by
\* the migrations (004_add_user_password) it has one that takes no NULL.
AInit ==
    /\ a_users = {}
    /\ a_reset = {}
    /\ a_nullable \in BOOLEAN
    /\ a_tokens = {}
    /\ u_pc = [s \in UserRequests |-> "idle"]
    /\ u_op = [s \in UserRequests |-> "none"]
    /\ u_email = [s \in UserRequests |-> NoUser]
    /\ u_password = [s \in UserRequests |-> "none"]
    /\ u_token = [s \in UserRequests |-> NoToken]
    /\ a_op = "none"
    /\ a_token = NoToken
    /\ a_status = 0
    /\ a_user = NoUser
    /\ a_issued = {}

(***************************************************************************)
(* Concurrent calls of the singleton semantic_matcher: each task runs one  *)
(* calculate_compatibility or find_compatible_jobs call; the steps of      *)
(* different tasks interleave between the statements of a call.            *)
(***************************************************************************)
\* The job_postings table the concurrent calls query, as a session hands
\* over its rows.
ConcurrentJobs(held) ==
    <<[description_embedding |-> Column(held, <<1, 0>>),
       requirements_embedding |-> Column(held, <<-1, 0>>),
       is_active |-> 1],
      [description_embedding |-> Column(held, <<3, 4>>),
       requirements_embedding |-> Column(held, <<1, 0>>),
       is_active |-> 1]>>

ConcurrentProfiles ==
    {[skills_embedding |-> Column(held, <<1, 0>>),
      experience_embedding |-> Column(held, <<3, 4>>),
      goals_embedding |-> Column(held, <<1, 0>>)] : held \in Deliveries}
    \cup
    {[skills_embedding |-> List(<<1, 0>>), experience_embedding |-> List(<<1, 0>>),
      goals_embedding |-> List(<<-1, 0>>)]}

NoCall == [kind |-> "none"]

\* Where a call keeps `rows`: a local variable of its own frame.
RowsSlot_shared(t) == 1
RowsSlot(t) == t

\* Task t calls calculate_compatibility(job, user_profile): the method has
\* no suspension point, it runs to its return or its exception in one step.
CCallCalculateCompatibility(t) ==
    /\ Constructed /\ SequentialIdle /\ ProfileRequestsIdle
    /\ c_pc[t] = "idle"
    /\ \E delivery \in Deliveries, j \in 1..Len(ConcurrentJobs("list")),
          user_profile \in ConcurrentProfiles :
           /\ c_call' = [c_call EXCEPT ![t] =
                            [kind |-> "calculate_compatibility",
                             job |-> ConcurrentJobs(delivery)[j],
                             profile |-> user_profile,
                             delivery |-> delivery,
                             limit |-> 0, min_score |-> 0]]
           /\ c_result' = [c_result EXCEPT ![t] =
                              CalculateCompatibility(ConcurrentJobs(delivery)[j],
                                                     user_profile)]
    /\ c_pc' = [c_pc EXCEPT ![t] = "done"]
    /\ UNCHANGED <<c_rows, c_given, gw_vars, m_vars, f_vars, e_vars, a_vars, p_vars>>

\* Task t calls find_compatible_jobs and awaits db.execute(query).
CCallFindCompatibleJobs(t) ==
    /\ Constructed /\ SequentialIdle /\ ProfileRequestsIdle
    /\ c_pc[t] = "idle"
    /\ \E delivery \in Deliveries, user_profile \in ConcurrentProfiles,
          limit \in 1..MaxLimit, min_score \in {0, 60 * One} :
           c_call' = [c_call EXCEPT ![t] =
                         [kind |-> "find_compatible_jobs",
                          job |-> <<>>,
                          profile |-> user_profile,
                          delivery |-> delivery,
                          limit |-> limit, min_score |-> min_score]]
    /\ c_pc' = [c_pc EXCEPT ![t] = "await_query"]
    /\ UNCHANGED <<c_rows, c_given, c_result, gw_vars, m_vars, f_vars, e_vars, a_vars, p_vars>>

\* The datastore answers task t's query: rows = result.all().  c_given
\* keeps what the datastore sent, c_rows is the variable of the call.
CQueryOk(t) ==
    /\ c_pc[t] = "await_query"
    /\ \E rows \in QueryRows(ConcurrentJobs(c_call[t].delivery),
                             c_call[t].profile, c_call[t].limit) :
           /\ c_rows' = [c_rows EXCEPT ![RowsSlot(t)] = rows]
           /\ c_given' = [c_given EXCEPT ![t] = rows]
    /\ c_pc' = [c_pc EXCEPT ![t] = "filter"]
    /\ UNCHANGED <<c_call, c_result, gw_vars, m_vars, f_vars, e_vars, a_vars, p_vars>>

\* Task t's query raises; the error propagates to its caller.
CQueryFail(t) ==
    /\ c_pc[t] = "await_query"
    /\ c_pc' = [c_pc EXCEPT ![t] = OnQueryError.status]
    /\ UNCHANGED <<c_call, c_rows, c_given, c_result,
                   gw_vars, m_vars, f_vars, e_vars, a_vars, p_vars>>

\* Task t filters its rows; the call ends with compatible_jobs or with the
\* exception of the loop, which has no suspension point.
CFilter(t) ==
    /\ c_pc[t] = "filter"
    /\ c_result' = [c_result EXCEPT ![t] =
                       CompatibleJobs(c_rows[RowsSlot(t)], c_call[t].profile,
                                      c_call[t].min_score)]
    /\ c_pc' = [c_pc EXCEPT ![t] = "done"]
    /\ UNCHANGED <<c_call, c_rows, c_given, gw_vars, m_vars, f_vars, e_vars, a_vars, p_vars>>

\* The caller of task t takes the outcome; the frame of the call is gone.
CReturn(t) ==
    /\ c_pc[t] \in {"done", "raised"}
    /\ c_pc' = [c_pc EXCEPT ![t] = "idle"]
    /\ c_call' = [c_call EXCEPT ![t] = NoCall]
    /\ c_rows' = [c_rows EXCEPT ![RowsSlot(t)] = <<>>]
    /\ c_given' = [c_given EXCEPT ![t] = <<>>]
    /\ c_result' = [c_result EXCEPT ![t] = <<>>]
    /\ UNCHANGED <<gw_vars, m_vars, f_vars, e_vars, a_vars, p_vars>>

CInit ==
    /\ c_pc = [t \in Tasks |-> "idle"]
    /\ c_call = [t \in Tasks |-> NoCall]
    /\ c_rows = [t \in Tasks |-> <<>>]
    /\ c_given = [t \in Tasks |-> <<>>]
    /\ c_result = [t \in Tasks |-> <<>>]

(***************************************************************************)
(* create_profile (src/backend/api/users.py): concurrent requests, each    *)
(* with its own database session.  A request embeds the profile texts,     *)
(* selects the profile of the user, updates or inserts it, and commits.    *)
(***************************************************************************)
\* request.skills: lists of skills, the empty one among them, whose
\* joined text is blank; request.career_goals: a text
SkillLists == {<<>>, <<(<<"a">>)>>, <<(<<"b">>)>>}
CareerGoals == {<<"a">>}

\* str(request.experience): the repr of a dict, never blank
ExperienceText == <<"b">>

\* ", ".join(skills)
RECURSIVE Join(_)
Join(skills) ==
    IF skills = <<>> THEN <<>>
    ELSE IF Len(skills) = 1 THEN skills[1]
    ELSE skills[1] \o <<",", " ">> \o Join(Tail(skills))

NoRow == 0
NoRequest == [user_id |-> 0, skills |-> <<>>, career_goals |-> <<>>]
NoEmbeddings ==
    [service |-> "none", status |-> "none", error |-> "none", value |-> <<>>]

\* embed_profile(skills, experience, goals) when the provider answers.
EmbedProfile(texts) ==
    Finish("embed_profile",
           IF BatchShortCircuits(texts) THEN BatchShortCircuitValue(texts)
           ELSE BatchValue(texts))

\* What create_profile makes of an exception of embed_profile: there is no
\* handler around the call, the exception leaves the route.
OnEmbedError_zeroVectors(error) ==
    [status |-> "returned", error |-> "none",
     value |-> [skills_embedding |-> ZeroVector,
                experience_embedding |-> ZeroVector,
                goals_embedding |-> ZeroVector]]
OnEmbedError(error) == [status |-> "raised", error |-> error, value |-> <<>>]

\* The ids of the rows of user_profiles with this user_id.
ProfileIds(rows, user_id) == {i \in 1..Len(rows) : rows[i].user_id = user_id}

\* The row create_profile writes from the request and the embeddings.
NewProfile(req, embeddings) ==
    [user_id |-> req.user_id,
     skills |-> req.skills,
     experience |-> ExperienceText,
     career_goals |-> req.career_goals,
     skills_embedding |-> embeddings.skills_embedding,
     experience_embedding |-> embeddings.experience_embedding,
     goals_embedding |-> embeddings.goals_embedding]

\* What a session that loaded no row holds.
NoLoaded ==
    [user_id |-> 0, skills |-> <<>>, experience |-> <<>>, career_goals |-> <<>>,
     skills_embedding |-> ZeroVector, experience_embedding |-> ZeroVector,
     goals_embedding |-> ZeroVector]

\* The value of a text or JSON column after the UPDATE of the commit: the
\* unit of work puts a column into the SET clause only when the assigned
\* value differs from the one its select loaded; a column left out keeps
\* what the table holds at the time of the UPDATE.
ColumnAfterUpdate(stored, loaded, assigned) ==
    IF assigned = loaded THEN stored ELSE assigned

\* The assignments of the update branch, as the UPDATE of the commit
\* applies them to the row the table holds.  The Vector columns are in
\* every SET clause: the loaded value is an array, and its comparison with
\* the assigned list never yields True.
UpdatedProfile(row, loaded, req, embeddings) ==
    [row EXCEPT !.skills = ColumnAfterUpdate(@, loaded.skills, req.skills),
                !.experience =
                    ColumnAfterUpdate(@, loaded.experience, ExperienceText),
                !.career_goals =
                    ColumnAfterUpdate(@, loaded.career_goals, req.career_goals),
                !.skills_embedding = embeddings.skills_embedding,
                !.experience_embedding = embeddings.experience_embedding,
                !.goals_embedding = embeddings.goals_embedding]

\* The select of the user by id: its exception leaves the route, an
\* absent row is answered 404.
UserLookup(user_id, users, datastore) ==
    IF datastore = "fails" THEN 500
    ELSE IF user_id \notin users THEN 404
    ELSE 0

\* POST /{user_id}/profile arrives and is suspended at `await db.execute`
\* of the select of the user.
PCall(r) ==
    /\ Constructed /\ SequentialIdle /\ MatcherTasksIdle /\ UserRequestsIdle
    /\ p_pc[r] = "idle"
    /\ \E user_id \in UserIds, skills \in SkillLists,
          career_goals \in CareerGoals :
           p_req' = [p_req EXCEPT ![r] =
                        [user_id |-> user_id, skills |-> skills,
                         career_goals |-> career_goals]]
    /\ p_pc' = [p_pc EXCEPT ![r] = "lookup"]
    /\ UNCHANGED <<p_rows, p_attempt, p_embed, p_profile, p_loaded, p_wrote,
                   p_status, gw_vars, m_vars, f_vars, e_vars, a_vars, c_vars>>

\* The select of the user answers: the request fails, or embed_profile is
\* called and runs to the provider call of embed_batch.
PLookup(r) ==
    /\ p_pc[r] = "lookup"
    /\ \E datastore \in Datastore :
           LET status == UserLookup(p_req[r].user_id, a_users, datastore)
           IN /\ p_status' = [p_status EXCEPT ![r] = status]
              /\ p_pc' = [p_pc EXCEPT ![r] =
                             IF status = 0 THEN "embedding" ELSE "failed"]
    /\ UNCHANGED <<p_rows, p_req, p_attempt, p_embed, p_profile, p_loaded,
                   p_wrote, gw_vars, m_vars, f_vars, e_vars, a_vars, c_vars>>

\* The texts create_profile passes to embed_profile.
ProfileTexts(req) == <<Join(req.skills), ExperienceText, req.career_goals>>

\* embed_profile is over with the outcome `service`: the route goes on to
\* the select of the profile, or the exception leaves it.
Embedded(r, service) ==
    LET seen == IF service.status = "raised"
                THEN OnEmbedError(service.error) ELSE service
    IN /\ p_embed' = [p_embed EXCEPT ![r] =
                         [service |-> service.status,
                          status |-> seen.status,
                          error |-> seen.error,
                          value |-> seen.value]]
       /\ p_attempt' = [p_attempt EXCEPT ![r] = 0]
       /\ IF seen.status = "raised"
          THEN /\ p_pc' = [p_pc EXCEPT ![r] = "failed"]
               /\ p_status' = [p_status EXCEPT ![r] = 500]
          ELSE /\ p_pc' = [p_pc EXCEPT ![r] = "embedded"]
               /\ UNCHANGED p_status

\* The provider call of an attempt of embed_batch answers: embed_profile
\* indexes the list and returns.
PAttemptOk(r) ==
    /\ p_pc[r] = "embedding"
    /\ Embedded(r, EmbedProfile(ProfileTexts(p_req[r])))
    /\ UNCHANGED <<p_rows, p_req, p_profile, p_loaded, p_wrote,
                   gw_vars, m_vars, f_vars, e_vars, a_vars, c_vars>>

\* The provider call of an attempt of embed_batch raises: tenacity gives
\* up after the third attempt, before that it awaits asyncio.sleep.
PAttemptFail(r) ==
    /\ p_pc[r] = "embedding"
    /\ ~BatchShortCircuits(ProfileTexts(p_req[r]))
    /\ IF ShouldStop(p_attempt[r] + 1)
       THEN Embedded(r, [status |-> "raised", error |-> GiveUpError,
                         value |-> <<>>])
       ELSE /\ p_pc' = [p_pc EXCEPT ![r] = "sleeping"]
            /\ p_attempt' = [p_attempt EXCEPT ![r] = p_attempt[r] + 1]
            /\ UNCHANGED <<p_embed, p_status>>
    /\ UNCHANGED <<p_rows, p_req, p_profile, p_loaded, p_wrote,
                   gw_vars, m_vars, f_vars, e_vars, a_vars, c_vars>>

\* asyncio.sleep returns: tenacity calls embed_batch again, which runs to
\* its provider call.
PWaitElapsed(r) ==
    /\ p_pc[r] = "sleeping"
    /\ p_pc' = [p_pc EXCEPT ![r] = "embedding"]
    /\ UNCHANGED <<p_rows, p_req, p_attempt, p_embed, p_profile, p_loaded,
                   p_wrote, p_status,
                   gw_vars, m_vars, f_vars, e_vars, a_vars, c_vars>>

\* profile = profile_result.scalar_one_or_none(): None, the one row, or
\* MultipleResultsFound when the user has several rows; or the select
\* itself raises.
PSelect(r) ==
    /\ p_pc[r] = "embedded"
    /\ \E datastore \in Datastore :
        LET ids == ProfileIds(p_rows, p_req[r].user_id)
        IN IF datastore = "fails" \/ Cardinality(ids) > 1
           THEN /\ p_pc' = [p_pc EXCEPT ![r] = "failed"]
                /\ p_status' = [p_status EXCEPT ![r] = 500]
                /\ UNCHANGED <<p_profile, p_loaded>>
           ELSE /\ p_pc' = [p_pc EXCEPT ![r] = "selected"]
                /\ p_profile' = [p_profile EXCEPT ![r] =
                                    IF ids = {} THEN NoRow
                                    ELSE CHOOSE i \in ids : TRUE]
                /\ p_loaded' = [p_loaded EXCEPT ![r] =
                                   IF ids = {} THEN NoLoaded
                                   ELSE p_rows[CHOOSE i \in ids : TRUE]]
                /\ UNCHANGED p_status
    /\ UNCHANGED <<p_rows, p_req, p_attempt, p_embed, p_wrote,
                   gw_vars, m_vars, f_vars, e_vars, a_vars, c_vars>>

\* The update or the insert, and await db.commit(): the INSERT of the
\* new row, or the UPDATE of the changed columns of the loaded row; or the
\* commit raises and the table is as it was.
PCommit(r) ==
    /\ p_pc[r] = "selected"
    /\ \E datastore \in Datastore :
        IF datastore = "fails"
        THEN /\ p_pc' = [p_pc EXCEPT ![r] = "failed"]
             /\ p_status' = [p_status EXCEPT ![r] = 500]
             /\ UNCHANGED <<p_rows, p_wrote>>
        ELSE /\ p_rows' = IF p_profile[r] = NoRow
                          THEN Append(p_rows,
                                      NewProfile(p_req[r], p_embed[r].value))
                          ELSE [p_rows EXCEPT ![p_profile[r]] =
                                   UpdatedProfile(@, p_loaded[r], p_req[r],
                                                  p_embed[r].value)]
             /\ p_wrote' = [p_wrote EXCEPT ![r] = TRUE]
             /\ p_pc' = [p_pc EXCEPT ![r] = "committed"]
             /\ UNCHANGED p_status
    /\ UNCHANGED <<p_req, p_attempt, p_embed, p_profile, p_loaded,
                   gw_vars, m_vars, f_vars, e_vars, a_vars, c_vars>>

\* await db.refresh(profile) after the commit: it returns and the route
\* answers 200, or it raises and the route answers 500 with the row
\* written.
PRefresh(r) ==
    /\ p_pc[r] = "committed"
    /\ \E datastore \in Datastore :
        /\ p_pc' = [p_pc EXCEPT ![r] =
                       IF datastore = "fails" THEN "failed" ELSE "done"]
        /\ p_status' = [p_status EXCEPT ![r] =
                           IF datastore = "fails" THEN 500 ELSE 200]
    /\ UNCHANGED <<p_rows, p_req, p_attempt, p_embed, p_profile, p_loaded,
                   p_wrote, gw_vars, m_vars, f_vars, e_vars, a_vars, c_vars>>

\* The response is sent; the session is closed.
PReturn(r) ==
    /\ p_pc[r] \in {"done", "failed"}
    /\ p_pc' = [p_pc EXCEPT ![r] = "idle"]
    /\ p_req' = [p_req EXCEPT ![r] = NoRequest]
    /\ p_embed' = [p_embed EXCEPT ![r] = NoEmbeddings]
    /\ p_profile' = [p_profile EXCEPT ![r] = NoRow]
    /\ p_loaded' = [p_loaded EXCEPT ![r] = NoLoaded]
    /\ p_wrote' = [p_wrote EXCEPT ![r] = FALSE]
    /\ p_status' = [p_status EXCEPT ![r] = 0]
    /\ UNCHANGED <<p_rows, p_attempt,
                   gw_vars, m_vars, f_vars, e_vars, a_vars, c_vars>>

PInit ==
    /\ p_rows = <<>>
    /\ p_pc = [r \in Requests |-> "idle"]
    /\ p_req = [r \in Requests |-> NoRequest]
    /\ p_attempt = [r \in Requests |-> 0]
    /\ p_embed = [r \in Requests |-> NoEmbeddings]
    /\ p_profile = [r \in Requests |-> NoRow]
    /\ p_loaded = [r \in Requests |-> NoLoaded]
    /\ p_wrote = [r \in Requests |-> FALSE]
    /\ p_status = [r \in Requests |-> 0]

FInit ==
    /\ f_status = "idle"
    /\ f_jobs = <<>>
    /\ f_profile = <<>>
    /\ f_limit = 0
    /\ f_min_score = 0
    /\ f_queries = 0
    /\ f_outcome = "none"
    /\ f_rows = <<>>
    /\ f_result = <<>>
    /\ f_error = "none"

GwInit ==
    /\ gw_op = "none"
    /\ gw_texts = <<>>
    /\ gw_status = "idle"
    /\ gw_attempt = 0
    /\ gw_calls = <<>>
    /\ gw_waits = <<>>
    /\ gw_result = <<>>
    /\ gw_error = "none"

MInit ==
    /\ m_op = "none"
    /\ m_job = <<>>
    /\ m_profile = <<>>
    /\ m_args = <<>>
    /\ m_result = <<>>

\* SemanticMatcher.__init__, run once when the module is imported.
\* Before the modules are imported no engine exists; weights holds a
\* placeholder until __init__ assigns the attribute.
\* No SemanticMatcher(config) call is under way.
NoConstruct == [attempted |-> FALSE, config |-> NoWeights, raised |-> FALSE]

EInit ==
    e_import = "pending" /\ weights = NoWeights /\ e_construct = NoConstruct

\* The import runs the class bodies, where @trace_function is applied to
\* the methods (utils/tracing.py:106 reads functools.iscoroutinefunction),
\* and then the module-level constructors.  CPython's functools has no
\* such attribute: the import raises AttributeError and no singleton is
\* ever constructed.
ImportFails ==
    /\ e_import = "pending"
    /\ e_import' = "failed"
    /\ UNCHANGED <<weights, e_construct, gw_vars, m_vars, f_vars, a_vars, c_vars, p_vars>>

\* The import in a process that has put the attribute into functools
\* beforehand: the decorators return async_wrapper, the classes are
\* defined and SemanticMatcher.__init__ assigns the weights.  Everything
\* the service and the matcher do happens after this step only.
ImportSucceeds ==
    /\ e_import = "pending"
    /\ e_import' = "ok"
    /\ weights' = Weights
    /\ UNCHANGED <<e_construct, gw_vars, m_vars, f_vars, a_vars, c_vars, p_vars>>

\* The weight configurations a caller hands to the constructor: the
\* engine's own, and one whose weights sum to 0.9.
WeightsSummingToNinety == [skills |-> 40, experience |-> 35, goals |-> 15]
WeightConfigs == {Weights, WeightsSummingToNinety}

\* Whether SemanticMatcher(config) builds an engine.  __init__(self) takes
\* no argument besides self: the call raises TypeError before the body of
\* __init__ runs, whatever the configuration is.
ConstructsWith_accepting(config) == TRUE
ConstructsWith(config) == FALSE

\* A caller constructs an engine with a weight configuration of its own
\* to serve the calls in place of the singleton.
ConstructWith ==
    /\ Constructed /\ Quiescent
    /\ \E config \in WeightConfigs :
           /\ e_construct' = [attempted |-> TRUE, config |-> config,
                              raised |-> ~ConstructsWith(config)]
           /\ weights' = IF ConstructsWith(config) THEN config ELSE weights
    /\ UNCHANGED <<e_import, gw_vars, m_vars, f_vars, a_vars, c_vars, p_vars>>

\* The caller takes the outcome of the constructor call.
ConstructReturn ==
    /\ e_construct.attempted
    /\ e_construct' = NoConstruct
    /\ UNCHANGED <<e_import, weights, gw_vars, m_vars, f_vars, a_vars, c_vars, p_vars>>

Init == GwInit /\ MInit /\ FInit /\ EInit /\ AInit /\ CInit /\ PInit

EmbedNext ==
    \/ ImportSucceeds
    \/ ImportFails
    \/ CallEmbedText
    \/ CallEmbedBatch
    \/ CallEmbedProfile
    \/ CallEmbedJob
    \/ AttemptShortCircuit
    \/ AttemptOk
    \/ AttemptFail
    \/ WaitElapsed
    \/ Complete

SpecEmbed == Init /\ [][EmbedNext]_vars

MatchNext ==
    \/ ImportSucceeds
    \/ ImportFails
    \/ CallCosineSimilarity
    \/ CallCalculateCompatibility
    \/ MatcherReturn

SpecMatch == Init /\ [][MatchNext]_vars

FindNext ==
    \/ ImportSucceeds
    \/ ImportFails
    \/ CallFindCompatibleJobs
    \/ QueryOk
    \/ QueryFail
    \/ FindReturn

SpecFind == Init /\ [][FindNext]_vars

\* The calls of the one shared engine: score and find.
EngineNext == MatchNext \/ FindNext \/ ConstructWith \/ ConstructReturn

SpecEngine == Init /\ [][EngineNext]_vars

\* The requests of the handlers that await the users table.
UserNext ==
    \E s \in UserRequests :
        \/ RegisterCall(s)
        \/ RegisterSelected(s)
        \/ CreateUserCall(s)
        \/ CreateUserSelected(s)
        \/ CreateUserCommit(s)
        \/ CreateUserRefresh(s)
        \/ ForgotPasswordCall(s)
        \/ ForgotPasswordSelected(s)
        \/ ForgotPasswordCommit(s)
        \/ CallLogin(s)
        \/ LoginSelected(s)
        \/ CallGetCurrentUser(s)
        \/ GetCurrentUserSelected(s)
        \/ CallRefreshToken(s)
        \/ RefreshTokenSelected(s)

AuthNext ==
    \/ ImportSucceeds
    \/ ImportFails
    \/ UserNext
    \/ CallResetPassword
    \/ AuthReturn

SpecAuth == Init /\ [][AuthNext]_vars

ConcurrentNext ==
    \/ ImportSucceeds
    \/ ImportFails
    \/ \E t \in Tasks :
        \/ CCallCalculateCompatibility(t)
        \/ CCallFindCompatibleJobs(t)
        \/ CQueryOk(t)
        \/ CQueryFail(t)
        \/ CFilter(t)
        \/ CReturn(t)

SpecConcurrent == Init /\ [][ConcurrentNext]_vars

\* create_profile requests, and the create_user requests of the same
\* router that make the rows of users they look up.
ProfileNext ==
    \/ ImportSucceeds
    \/ ImportFails
    \/ \E s \in UserRequests :
        \/ CreateUserCall(s)
        \/ CreateUserSelected(s)
        \/ CreateUserCommit(s)
        \/ CreateUserRefresh(s)
    \/ AuthReturn
    \/ \E r \in Requests :
        \/ PCall(r)
        \/ PLookup(r)
        \/ PAttemptOk(r)
        \/ PAttemptFail(r)
        \/ PWaitElapsed(r)
        \/ PSelect(r)
        \/ PCommit(r)
        \/ PRefresh(r)
        \/ PReturn(r)

SpecProfile == Init /\ [][ProfileNext]_vars

Next ==
    EmbedNext \/ EngineNext \/ AuthNext \/ ConcurrentNext \/ ProfileNext

Spec == Init /\ [][Next]_vars

(***************************************************************************)
(* Properties.                                                             *)
(***************************************************************************)
\* Every character of t is whitespace (so also the empty text).
AllWhitespace(t) == \A i \in 1..Len(t) : t[i] = " "

\* The embedding the specification gives one text: the zero vector for an
\* empty or whitespace-only text, the provider's vector for the trimmed
\* and truncated text otherwise.
ExpectedEmbedding(t) ==
    IF AllWhitespace(t) THEN [i \in 1..Dimension |-> 0]
    ELSE ProviderVector(Truncate(Strip(t)))

GwDone == gw_status \in {"returned", "raised"}

\* C1: embed_batch returns a list as long as its input whose position i is
\* the zero vector when texts[i] is empty or whitespace-only and the
\* provider's vector for texts[i] otherwise.
C1_BatchKeepsLengthAndPositions ==
    (gw_op = "embed_batch" /\ gw_status = "returned") =>
        /\ Len(gw_result) = Len(gw_texts)
        /\ \A i \in 1..Len(gw_texts) : gw_result[i] = ExpectedEmbedding(gw_texts[i])

\* C2: embed_profile and embed_job do not fail because some field is empty,
\* and each named field of the result is the embedding of the text of that
\* name.
C2_NamedFieldsHoldTheirOwnEmbedding ==
    /\ (gw_op \in {"embed_profile", "embed_job"}) => gw_error # "IndexError"
    /\ (gw_op = "embed_profile" /\ gw_status = "returned") =>
          /\ gw_result.skills_embedding = ExpectedEmbedding(gw_texts[1])
          /\ gw_result.experience_embedding = ExpectedEmbedding(gw_texts[2])
          /\ gw_result.goals_embedding = ExpectedEmbedding(gw_texts[3])
    /\ (gw_op = "embed_job" /\ gw_status = "returned") =>
          /\ gw_result.description_embedding = ExpectedEmbedding(gw_texts[1])
          /\ gw_result.requirements_embedding = ExpectedEmbedding(gw_texts[2])

\* C3: the provider is never called with an empty or whitespace-only
\* string; embed_text on such a text, and embed_batch on a list of only
\* such texts, make no provider call and return zero vectors of length
\* Dimension, one per input item.
C3_BlankTextNeverReachesProvider ==
    /\ \A k \in 1..Len(gw_calls) :
          /\ gw_calls[k].input # <<>>
          /\ \A j \in 1..Len(gw_calls[k].input) :
                ~AllWhitespace(gw_calls[k].input[j])
    /\ (gw_op \in {"embed_text", "embed_batch"}
        /\ \A i \in 1..Len(gw_texts) : AllWhitespace(gw_texts[i])) =>
          /\ gw_calls = <<>>
          /\ gw_status # "raised"
          /\ (gw_op = "embed_text" /\ gw_status = "returned") =>
                /\ Len(gw_result) = Dimension
                /\ \A i \in 1..Dimension : gw_result[i] = 0
          /\ (gw_op = "embed_batch" /\ gw_status = "returned") =>
                /\ Len(gw_result) = Len(gw_texts)
                /\ \A i \in 1..Len(gw_texts) :
                      /\ Len(gw_result[i]) = Dimension
                      /\ \A d \in 1..Dimension : gw_result[i][d] = 0

\* embed_text(" ") has returned the zero vector without a provider call.
C3_Witness ==
    /\ gw_op = "embed_text"
    /\ gw_texts = <<(<<" ">>)>>
    /\ gw_status = "returned"
    /\ gw_calls = <<>>
    /\ gw_result = ZeroVector

AllCallsAre(outcome) == \A k \in 1..Len(gw_calls) : gw_calls[k].outcome = outcome

\* C4: when every attempt of embed_text / embed_batch fails with a
\* transient provider failure, the call raises an embedding-specific error
\* kind (EmbeddingException, utils/error_handling.py) and returns nothing.
C4_ExhaustedRetriesRaiseEmbeddingError ==
    (gw_op \in {"embed_text", "embed_batch"} /\ GwDone
     /\ gw_calls # <<>> /\ AllCallsAre("transient")) =>
        /\ gw_status = "raised"
        /\ gw_error = "EmbeddingException"

\* C5: one embed_text / embed_batch invocation makes at most 3 provider
\* calls; only the last call can have succeeded, and then the invocation
\* has returned that call's vectors; it raises only after the third failed
\* call, and while it runs fewer than 3 attempts have been made.
C5_AtMostThreeProviderCalls ==
    gw_op \in {"embed_text", "embed_batch"} =>
        /\ Len(gw_calls) <= 3
        /\ gw_attempt <= 3
        /\ \A k \in 1..(Len(gw_calls) - 1) : gw_calls[k].outcome # "ok"
        /\ (gw_calls # <<>> /\ gw_calls[Len(gw_calls)].outcome = "ok") =>
              /\ gw_status = "returned"
              /\ gw_result = IF gw_op = "embed_text"
                             THEN ProviderVector(gw_calls[Len(gw_calls)].input[1])
                             ELSE ProviderBatch(gw_calls[Len(gw_calls)].input)
        /\ gw_status = "raised" =>
              /\ Len(gw_calls) = 3
              /\ \A k \in 1..3 : gw_calls[k].outcome # "ok"
        /\ gw_status = "running" => gw_attempt < 3 /\ gw_attempt = Len(gw_calls)

\* embed_text returned the vector of its third attempt after two failures.
C5_Witness ==
    /\ gw_op = "embed_text"
    /\ gw_status = "returned"
    /\ Len(gw_calls) = 3
    /\ gw_calls[1].outcome = "transient"
    /\ gw_calls[2].outcome = "transient"
    /\ gw_calls[3].outcome = "ok"

\* C6: a permanent provider failure makes the invocation fail after exactly
\* one provider call.
C6_PermanentFailureIsNotRetried ==
    (gw_calls # <<>> /\ gw_calls[1].outcome = "permanent") =>
        /\ Len(gw_calls) = 1
        /\ gw_status = "raised"

\* calculate_compatibility was called and returned a result dictionary.
Scored == m_op = "calculate_compatibility" /\ ~m_result.raised

\* C7: skills_match is the cosine similarity of (job.description,
\* profile.skills), experience_match that of (job.requirements,
\* profile.experience), goals_alignment that of (job.description,
\* profile.goals).
C7_FixedPairing ==
    Scored =>
        /\ m_result.skills_match =
              CosineSimilarity(m_job.description_embedding,
                               m_profile.skills_embedding)
        /\ m_result.experience_match =
              CosineSimilarity(m_job.requirements_embedding,
                               m_profile.experience_embedding)
        /\ m_result.goals_alignment =
              CosineSimilarity(m_job.description_embedding,
                               m_profile.goals_embedding)

\* A call in which every other pairing of the five vectors would give
\* another component: 1.0, 1.0 and 0.6.
C7_Witness ==
    /\ Scored
    /\ m_job = [description_embedding |-> List(<<1, 0>>),
                requirements_embedding |-> List(<<0, 1>>)]
    /\ m_profile = [skills_embedding |-> List(<<1, 0>>),
                    experience_embedding |-> List(<<0, 1>>),
                    goals_embedding |-> List(<<3, 4>>)]
    /\ m_result.skills_match = 100
    /\ m_result.experience_match = 100
    /\ m_result.goals_alignment = 60

\* The argument holds no component (the empty vector, None) or components
\* that are all zero (norm exactly zero).
EmptyOrZeroNorm(vec) == \A i \in 1..Len(vec.value) : vec.value[i] = 0

\* C8: _cosine_similarity returns 0.0 and does not raise whenever either
\* argument is empty or has norm zero, whatever the other argument is.
C8_ZeroVectorGivesZero ==
    (m_op = "cosine_similarity"
     /\ (EmptyOrZeroNorm(m_args[1]) \/ EmptyOrZeroNorm(m_args[2]))) =>
        /\ ~m_result.raised
        /\ m_result.value = 0

\* C9: each of overall_score, skills_match, experience_match and
\* goals_alignment lies in [0.0, 1.0].
C9_ScoresInUnitInterval ==
    Scored =>
        /\ 0 <= m_result.skills_match /\ m_result.skills_match <= One
        /\ 0 <= m_result.experience_match /\ m_result.experience_match <= One
        /\ 0 <= m_result.goals_alignment /\ m_result.goals_alignment <= One
        /\ 0 <= m_result.overall_score /\ m_result.overall_score <= One * One

\* Opposite description and skills vectors (raw cosine -1.0) scored 0.0.
C9_Witness ==
    /\ Scored
    /\ m_job.description_embedding = List(<<1, 0>>)
    /\ m_profile.skills_embedding = List(<<-1, 0>>)
    /\ m_profile.goals_embedding = List(<<-1, 0>>)
    /\ m_result.skills_match = 0
    /\ m_result.overall_score >= 0

\* C10: overall_score = skills_match * 0.40 + experience_match * 0.35
\* + goals_alignment * 0.25, over the components of the same result.
C10_OverallIsWeightedSum ==
    Scored =>
        m_result.overall_score =
            m_result.skills_match * 40
            + m_result.experience_match * 35
            + m_result.goals_alignment * 25

\* Components 1.0, 0.0, 1.0 gave the overall score 0.65.
C10_Witness ==
    /\ Scored
    /\ m_result.skills_match = One
    /\ m_result.experience_match = 0
    /\ m_result.goals_alignment = One
    /\ m_result.overall_score = 65 * One

\* C11: cosine_similarity(v, v) = 1.0 for every non-zero v; identical
\* non-zero job description and profile skills embeddings give
\* skills_match = 1.0.
C11_IdenticalVectorsGiveOne ==
    /\ (m_op = "cosine_similarity" /\ m_args[1] = m_args[2]
        /\ ~EmptyOrZeroNorm(m_args[1])) =>
          ~m_result.raised /\ m_result.value = One
    /\ (Scored /\ m_job.description_embedding = m_profile.skills_embedding
        /\ ~EmptyOrZeroNorm(m_job.description_embedding)) =>
          m_result.skills_match = One

RECURSIVE DotProduct(_, _)
DotProduct(a, b) ==
    IF a = <<>> \/ b = <<>> THEN 0
    ELSE a[1] * b[1] + DotProduct(Tail(a), Tail(b))

\* a is non-zero, b has a's dimension and dot(a, b) = 0; a dot product
\* with a component that is not finite is inf or nan, never 0.
Orthogonal(a, b) ==
    /\ ~EmptyOrZeroNorm(a)
    /\ b.kind # "None"
    /\ Len(a.value) = Len(b.value)
    /\ ~NonFinite(a.value) /\ ~NonFinite(b.value)
    /\ DotProduct(a.value, b.value) = 0

\* C12: cosine_similarity(a, b) = 0.0 for every non-zero a and every b of
\* the same dimension with dot(a, b) = 0; orthogonal job requirements and
\* profile experience embeddings give experience_match = 0.0.
C12_OrthogonalVectorsGiveZero ==
    /\ (m_op = "cosine_similarity" /\ Orthogonal(m_args[1], m_args[2])) =>
          ~m_result.raised /\ m_result.value = 0
    /\ (Scored /\ Orthogonal(m_job.requirements_embedding,
                             m_profile.experience_embedding)) =>
          m_result.experience_match = 0

Found == f_status = "returned"

\* The same vectors as lists of floats.
ListedJob(job) ==
    [description_embedding |-> List(job.description_embedding.value),
     requirements_embedding |-> List(job.requirements_embedding.value)]
ListedProfile(user_profile) ==
    [skills_embedding |-> List(user_profile.skills_embedding.value),
     experience_embedding |-> List(user_profile.experience_embedding.value),
     goals_embedding |-> List(user_profile.goals_embedding.value)]

\* The weighted score and the components calculate_compatibility computes
\* for the vectors of a job and a profile.
WeightedScore(job, user_profile) ==
    CalculateCompatibility(ListedJob(job), ListedProfile(user_profile))

\* min_score lies in [0.0, 1.0] and limit is a positive integer.
ValidArguments ==
    0 <= f_min_score /\ f_min_score <= One * One /\ f_limit >= 1

\* No embedding of the profile or of a job of the table is the zero vector.
NoZeroEmbedding ==
    /\ \A i \in 1..Len(f_jobs) :
          /\ ~EmptyOrZeroNorm(f_jobs[i].description_embedding)
          /\ ~EmptyOrZeroNorm(f_jobs[i].requirements_embedding)
    /\ ~EmptyOrZeroNorm(f_profile.skills_embedding)
    /\ ~EmptyOrZeroNorm(f_profile.experience_embedding)
    /\ ~EmptyOrZeroNorm(f_profile.goals_embedding)

\* Position of the row of job `id` in the rows the query returned.
RowIndex(id) == CHOOSE k \in 1..Len(f_rows) : f_rows[k].id = id

\* C13: the list find_compatible_jobs returns is in non-increasing order of
\* the overall_score of each item's breakdown, and keeps the relative
\* order of the supplier's rows.
C13_SortedByOverallScore ==
    (Found /\ ValidArguments /\ NoZeroEmbedding) =>
        \A i, j \in 1..Len(f_result) :
            i < j =>
                /\ f_result[i].breakdown.overall_score
                      >= f_result[j].breakdown.overall_score
                /\ RowIndex(f_result[i].id) < RowIndex(f_result[j].id)

\* C14: every item returned has a breakdown whose overall_score is at
\* least min_score; the result holds no more items than the query gave.
C14_ReturnedItemsReachMinScore ==
    Found =>
        /\ \A i \in 1..Len(f_result) :
              f_result[i].breakdown.overall_score >= f_min_score
        /\ Len(f_result) <= Len(f_rows)
        /\ f_limit >= 0 /\ Len(f_rows) <= f_limit

\* A session that hands over lists returned two rows; one was kept and one
\* was dropped.
C14_Witness ==
    /\ Found
    /\ ValidArguments
    /\ f_min_score = 60 * One
    /\ Len(f_rows) = 2
    /\ \A k \in 1..Len(f_rows) : f_rows[k].job.description_embedding.kind = "list"
    /\ f_profile.skills_embedding.kind = "list"
    /\ Len(f_result) = 1
    /\ f_result[1].breakdown.overall_score >= f_min_score

\* C15: the items returned are exactly the rows of the query whose
\* weighted score (that of calculate_compatibility) is at least min_score.
C15_ExactlyTheRowsAtOrAboveMinScore ==
    (Found /\ ValidArguments /\ NoZeroEmbedding) =>
        \A k \in 1..Len(f_rows) :
            (WeightedScore(f_rows[k].job, f_profile).overall_score
                >= f_min_score)
            <=> (\E i \in 1..Len(f_result) : f_result[i].id = f_rows[k].id)

\* C16: the compatibility_score of every item returned equals the
\* overall_score of its breakdown.
C16_RankingScoreEqualsBreakdown ==
    (Found /\ ValidArguments /\ NoZeroEmbedding) =>
        \A i \in 1..Len(f_result) :
            f_result[i].compatibility_score
                = f_result[i].breakdown.overall_score

\* C17: a call whose min_score is outside [0.0, 1.0] or whose limit is not
\* positive issues no datastore query and returns no result.
C17_InvalidArgumentsRejectedBeforeQuery ==
    (f_status # "idle" /\ ~ValidArguments) =>
        /\ f_queries = 0
        /\ f_outcome = "none"
        /\ f_status # "returned"

\* Both vectors are non-empty and their dimensions differ.
DimensionMismatch(a, b) ==
    a.value # <<>> /\ b.value # <<>> /\ Len(a.value) # Len(b.value)

\* C18: a vector whose dimension differs from its partner's makes the call
\* fail with an error: _cosine_similarity raises, and
\* calculate_compatibility returns no result for such a pair.
C18_DimensionMismatchFailsLoudly ==
    /\ (m_op = "cosine_similarity" /\ DimensionMismatch(m_args[1], m_args[2])) =>
          m_result.raised
    /\ Scored =>
          /\ ~DimensionMismatch(m_job.description_embedding,
                                m_profile.skills_embedding)
          /\ ~DimensionMismatch(m_job.requirements_embedding,
                                m_profile.experience_embedding)
          /\ ~DimensionMismatch(m_job.description_embedding,
                                m_profile.goals_embedding)

\* C19: find_compatible_jobs issues exactly one datastore query per call;
\* when the query fails, the datastore's error reaches the caller and no
\* list, empty or partial, is returned.
C19_QueryFailurePropagates ==
    /\ f_queries <= 1
    /\ f_status \in {"returned", "raised"} => f_queries = 1
    /\ f_outcome = "error" =>
          /\ f_status = "raised"
          /\ f_error = "DatastoreError"
          /\ f_result = <<>>
          /\ f_rows = <<>>

\* The query of a call with valid arguments failed and the call raised.
C19_Witness ==
    /\ f_status = "raised"
    /\ ValidArguments
    /\ f_jobs # <<>>
    /\ f_outcome = "error"
    /\ f_queries = 1
    /\ f_error = "DatastoreError"

\* An engine is serving a calculate_compatibility or find_compatible_jobs
\* call.
Serving == m_op = "calculate_compatibility" \/ f_status # "idle"

\* C20: a SemanticMatcher(config) call with weights that do not sum to 1.0
\* raises and builds no engine, and the weights of an engine that serves a
\* calculate_compatibility or find_compatible_jobs call sum to 1.0.
C20_InvalidWeightsFailAtConstruction ==
    /\ (e_construct.attempted
        /\ e_construct.config.skills + e_construct.config.experience
              + e_construct.config.goals # One) =>
          e_construct.raised /\ weights = Weights
    /\ Serving => weights.skills + weights.experience + weights.goals = One

\* The constructor was called with weights that sum to 0.9 and raised.
C20_Witness ==
    /\ e_construct.attempted
    /\ e_construct.config = WeightsSummingToNinety
    /\ e_construct.raised
    /\ weights = Weights

\* C21: in every reachable state in which the engine is constructed its
\* weights are exactly
\* {skills: 0.40, experience: 0.35, goals: 0.25} and sum to 1.0, and no
\* step of calculate_compatibility or find_compatible_jobs changes them.
C21_WeightsFixed ==
    /\ [](Constructed =>
             /\ weights = [skills |-> 40, experience |-> 35, goals |-> 25]
             /\ weights.skills + weights.experience + weights.goals = One)
    /\ [][Constructed => weights' = weights]_vars

\* calculate_compatibility has scored lists with the weights of the
\* constructed engine: components 1.0, 0.6 and 1.0 gave 0.86.
C21_Witness ==
    /\ Constructed
    /\ Scored
    /\ m_job.description_embedding = List(<<1, 0>>)
    /\ m_result.skills_match = One
    /\ m_result.experience_match = 60
    /\ m_result.goals_alignment = One
    /\ m_result.overall_score = 86 * One
    /\ weights = Weights

\* C22: the refresh operation answers 401 and issues nothing for every
\* token that is not of type refresh; get_current_user answers 401 and
\* yields no user for every token that is not of type access.
C22_TokenTypesNotInterchangeable ==
    /\ (a_op = "refresh_token" /\ a_token.type # "refresh") =>
          a_status = 401 /\ a_issued = {}
    /\ (a_op = "get_current_user" /\ a_token.type # "access") =>
          a_status = 401 /\ a_user = NoUser

\* An access token the API issued, to a user whose row create_user made,
\* was refused by refresh.
C22_Witness ==
    /\ a_op = "refresh_token"
    /\ a_token \in a_tokens
    /\ a_token.type = "access"
    /\ a_token.sub \in a_users
    /\ a_status = 401

\* C23: every string of every provider call is one of the caller's texts
\* trimmed of surrounding whitespace and cut to the character budget, so
\* none is longer than the budget; embed_text and embed_batch raise only
\* after a provider call failed, never because a text was cut.
C23_ProviderInputTrimmedAndCut ==
    /\ \A k \in 1..Len(gw_calls) : \A j \in 1..Len(gw_calls[k].input) :
          /\ Len(gw_calls[k].input[j]) <= MaxChars
          /\ \E i \in 1..Len(gw_texts) :
                LET trimmed == Strip(gw_texts[i])
                IN gw_calls[k].input[j]
                      = SubSeq(trimmed, 1, Min(Len(trimmed), MaxChars))
    /\ (gw_op \in {"embed_text", "embed_batch"} /\ gw_status = "raised") =>
          /\ gw_calls # <<>>
          /\ gw_calls[Len(gw_calls)].outcome # "ok"

\* embed_text of a text longer than the budget returned, and its provider
\* call carried the text cut to the budget.
C23_Witness ==
    /\ gw_op = "embed_text"
    /\ gw_status = "returned"
    /\ Len(Strip(gw_texts[1])) > MaxChars
    /\ Len(gw_calls) = 1
    /\ Len(gw_calls[1].input[1]) = MaxChars

\* C24: every wait between two attempts of a failing embed call lies
\* between 2 and 10 seconds, and the waits are jittered or each is longer
\* than the one before it.
C24_WaitsGrowOrJitter ==
    /\ \A k \in 1..Len(gw_waits) : 2 <= gw_waits[k] /\ gw_waits[k] <= 10
    /\ \/ Cardinality(WaitJitter) > 1
       \/ \A k \in 1..(Len(gw_waits) - 1) : gw_waits[k] < gw_waits[k + 1]

\* The cosine of two non-zero vectors of one dimension, not clamped.
RawCosine(a, b) ==
    (DotProduct(a.value, b.value) * One) \div (NpNorm(a.value) * NpNorm(b.value))

\* No embedding of the row's job or of the profile is the zero vector.
RowHasNoZeroEmbedding(row) ==
    /\ ~EmptyOrZeroNorm(row.job.description_embedding)
    /\ ~EmptyOrZeroNorm(row.job.requirements_embedding)
    /\ ~EmptyOrZeroNorm(f_profile.skills_embedding)
    /\ ~EmptyOrZeroNorm(f_profile.experience_embedding)
    /\ ~EmptyOrZeroNorm(f_profile.goals_embedding)

\* C25: the score of every row of the ranking query is 0.40 * cos(job
\* description, profile skills) + 0.35 * cos(job requirements, profile
\* experience) + 0.25 * cos(job description, profile goals): the pairings
\* and weights of calculate_compatibility.  Where no cosine is negative it
\* equals the sum of the breakdown's components under the same weights.
C25_RankingUsesScoringFormula ==
    \A k \in 1..Len(f_rows) :
        RowHasNoZeroEmbedding(f_rows[k]) =>
            LET job == f_rows[k].job
                skills == RawCosine(job.description_embedding,
                                    f_profile.skills_embedding)
                experience == RawCosine(job.requirements_embedding,
                                        f_profile.experience_embedding)
                goals == RawCosine(job.description_embedding,
                                   f_profile.goals_embedding)
                breakdown == WeightedScore(job, f_profile)
            IN /\ ~f_rows[k].score.null
               /\ ~f_rows[k].score.nan
               /\ f_rows[k].score.value = 40 * skills + 35 * experience + 25 * goals
               /\ (skills >= 0 /\ experience >= 0 /\ goals >= 0) =>
                     f_rows[k].score.value
                        = 40 * breakdown.skills_match
                          + 35 * breakdown.experience_match
                          + 25 * breakdown.goals_alignment

\* A row whose three cosines are 1.0, 0.6 and 1.0 was ranked with the
\* score 0.86; other pairings or weights give another number.
C25_Witness ==
    /\ Found
    /\ ListedProfile(f_profile) = [skills_embedding |-> List(<<1, 0>>),
                                   experience_embedding |-> List(<<3, 4>>),
                                   goals_embedding |-> List(<<1, 0>>)]
    /\ \E k \in 1..Len(f_rows) :
          /\ f_rows[k].job.description_embedding.value = <<1, 0>>
          /\ f_rows[k].job.requirements_embedding.value = <<1, 0>>
          /\ f_rows[k].score.value = 86 * One

RowIds == {f_rows[k].id : k \in 1..Len(f_rows)}

\* C26: the rows find_compatible_jobs filters are the first limit rows of
\* the ranking of the active jobs, and no active job outside them is ranked
\* strictly above one of them; the call returns at most limit items, each
\* of them one of those rows and an active job of the table.
C26_LimitCapsBeforeFilter ==
    /\ f_outcome = "rows" =>
          /\ Len(f_rows) = Min(f_limit, Cardinality(ActiveIds(f_jobs)))
          /\ \A k \in 1..Len(f_rows) :
                /\ f_rows[k].job = f_jobs[f_rows[k].id]
                /\ f_rows[k].job.is_active = 1
          /\ \A j \in 1..Len(f_jobs) :
                (f_jobs[j].is_active = 1 /\ j \notin RowIds) =>
                    \A k \in 1..Len(f_rows) :
                        SortsBefore(f_rows[k].score,
                                    DatastoreScore(f_jobs[j], f_profile))
    /\ Found =>
          /\ Len(f_result) <= f_limit
          /\ Len(f_result) <= Len(f_rows)
          /\ \A i \in 1..Len(f_result) :
                /\ f_result[i].id \in RowIds
                /\ f_result[i].job = f_jobs[f_result[i].id]
                /\ f_result[i].job.is_active = 1

\* A session that hands over lists holds two active jobs that both reach
\* min_score; with limit 1 only the first of the ranking is returned.
C26_Witness ==
    /\ Found
    /\ f_limit = 1
    /\ ValidArguments
    /\ Len(f_jobs) >= 2
    /\ \A j \in 1..Len(f_jobs) :
          /\ f_jobs[j].is_active = 1
          /\ f_jobs[j].description_embedding.kind = "list"
          /\ ~DatastoreScore(f_jobs[j], f_profile).null
          /\ KeepsRow(DatastoreScore(f_jobs[j], f_profile), f_min_score)
    /\ f_profile.skills_embedding.kind = "list"
    /\ Len(f_rows) = 1
    /\ Len(f_result) = 1

\* The result dictionary of calculate_compatibility for a job and a profile,
\* stated from the constructed weights 0.40, 0.35 and 0.25.
BreakdownAlone(job, user_profile) ==
    LET skills == CosineOutcome(job.description_embedding,
                                user_profile.skills_embedding)
        experience == CosineOutcome(job.requirements_embedding,
                                    user_profile.experience_embedding)
        goals == CosineOutcome(job.description_embedding,
                               user_profile.goals_embedding)
    IN IF skills.raised \/ experience.raised \/ goals.raised THEN Raised
       ELSE [raised |-> FALSE,
             overall_score |-> 40 * skills.value + 35 * experience.value
                               + 25 * goals.value,
             skills_match |-> skills.value,
             experience_match |-> experience.value,
             goals_alignment |-> goals.value]

\* What find_compatible_jobs gives for the rows of its query, stated without
\* its loop: the call ends at the first row whose score is NULL or that
\* reaches min_score and cannot be scored; without such a row it returns
\* the rows that reach min_score, in the order of the query.
FindAlone(rows, user_profile, min_score) ==
    LET stops == {k \in 1..Len(rows) :
                     \/ rows[k].score.null
                     \/ /\ KeepsRow(rows[k].score, min_score)
                        /\ BreakdownAlone(rows[k].job, user_profile).raised}
        first == CHOOSE k \in stops : \A j \in stops : k <= j
        kept == SelectSeq(rows, LAMBDA row : KeepsRow(row.score, min_score))
    IN IF stops # {}
       THEN Raises(IF rows[first].score.null THEN "TypeError" ELSE "ValueError")
       ELSE Returned([i \in 1..Len(kept) |->
                         [id |-> kept[i].id,
                          job |-> kept[i].job,
                          compatibility_score |-> kept[i].score.value,
                          breakdown |-> BreakdownAlone(kept[i].job, user_profile)]])

\* What the call of task t gives when it runs alone on its arguments and on
\* the rows the datastore sent it.
ResultAlone(t) ==
    IF c_call[t].kind = "calculate_compatibility"
    THEN BreakdownAlone(c_call[t].job, c_call[t].profile)
    ELSE FindAlone(c_given[t], c_call[t].profile, c_call[t].min_score)

\* C27: under every interleaving of concurrent calculate_compatibility and
\* find_compatible_jobs calls on the shared matcher, each call ends as it
\* ends alone on the same arguments and datastore rows, and the weights the
\* calls share stay as constructed.
C27_ConcurrentCallsAreIndependent ==
    /\ Constructed => weights = Weights
    /\ \A t \in Tasks : c_pc[t] = "done" => c_result[t] = ResultAlone(t)

\* A find call on loaded rows ended with the ValueError of its first kept
\* row while another call, which the datastore had answered with other rows
\* after the first one's query, was still in progress; those other rows
\* would have made the first call return the empty list.
C27_Witness ==
    \E t, u \in Tasks :
        /\ t # u
        /\ c_pc[t] = "done"
        /\ c_call[t].kind = "find_compatible_jobs"
        /\ c_call[t].delivery = "ndarray"
        /\ c_result[t] = Raises("ValueError")
        /\ c_pc[u] = "filter"
        /\ c_given[u] # c_given[t]
        /\ FindAlone(c_given[u], c_call[t].profile, c_call[t].min_score)
              = Returned(<<>>)

\* The embedding of a stored text: the zero vector for a blank text, the
\* provider's vector for the trimmed and cut text otherwise.
EmbeddingOf(t) ==
    IF AllWhitespace(t) THEN [i \in 1..Dimension |-> 0]
    ELSE ProviderVector(Truncate(Strip(t)))

\* C28: in every profile record the three stored embeddings are the ones
\* computed from the text fields of the same record, whatever create or
\* update requests ran before.  Two overlapping updates of one profile
\* refute it: the later commit writes its embeddings and leaves a text
\* column it did not change to the earlier commit's value.
C28_EmbeddingsMatchStoredTexts ==
    \A i \in 1..Len(p_rows) :
        /\ p_rows[i].skills_embedding = EmbeddingOf(Join(p_rows[i].skills))
        /\ p_rows[i].experience_embedding = EmbeddingOf(p_rows[i].experience)
        /\ p_rows[i].goals_embedding = EmbeddingOf(p_rows[i].career_goals)

\* C29: whatever the interleaving of create_profile requests, a user has
\* at most one profile record.
C29_AtMostOneProfilePerUser ==
    \A u \in UserIds : Cardinality(ProfileIds(p_rows, u)) <= 1

\* C30: when embed_profile fails in a create_profile request, the request
\* fails, it commits nothing, and its steps leave user_profiles as it was.
C30_EmbeddingFailureLeavesProfileUntouched ==
    /\ [](\A r \in Requests :
             p_embed[r].service = "raised" =>
                 /\ p_pc[r] = "failed"
                 /\ p_status[r] = 500
                 /\ ~p_wrote[r])
    /\ [][\A r \in Requests :
             (p_embed'[r].service = "raised" /\ p_pc'[r] # p_pc[r]) =>
                 p_rows' = p_rows]_vars

\* An update request for a user with a stored profile failed at the
\* embedding step, and the stored profile is unchanged by it.
C30_Witness ==
    \E r \in Requests :
        /\ p_embed[r].service = "raised"
        /\ p_pc[r] = "failed"
        /\ ~p_wrote[r]
        /\ ProfileIds(p_rows, p_req[r].user_id) # {}

====
